---- MODULE Spec2Model ----
(***************************************************************************)
(* Pointer-reactive typography engine of script.js (the optimized engine   *)
(* that starts at script.js:665): InteractiveState, EffectCalculator,      *)
(* Throttler, PerformanceMonitor and InteractiveTextApp.                   *)
(*                                                                         *)
(* Numbers.  JavaScript doubles are modelled in fixed point with two       *)
(* decimals: the integer 100 stands for 1.0.  Amplitudes, weights,         *)
(* distortions and quality levels are such values; pixels, milliseconds    *)
(* and the CONFIG values are plain integers, as their comments say.        *)
(* Products and quotients of two fixed-point values are FMul and FDiv,     *)
(* which truncate toward zero.  Math.sin / Math.cos are modelled by        *)
(* Bhaskara's rational approximation (error below 0.002), Math.sqrt by the *)
(* integer square root to one decimal.  Infinity (a division by a zero     *)
(* interval) is the value Infinity below, absorbing under scaling.         *)
(***************************************************************************)
EXTENDS Integers, Sequences, FiniteSets, TLC

(***************************************************************************)
(* CONFIG (script.js:666-756).  Plain source values; FP() converts.        *)
(***************************************************************************)
MOUSE_RANGE == 400
MOUSE_FALLOFF == 400
WEIGHT_MIN == 60
WEIGHT_MAX == 140
WEIGHT_BASELINE == 60
DISTORTION_MIN == 0
DISTORTION_MAX == 60
DISTORTION_BASELINE == 0
TILT_SENSITIVITY == 60
\* decay factors, in hundredths (0.95, 0.92, 0.98, 0.92)
DECAY_CLICK == 95
DECAY_KEYBOARD == 92
DECAY_ORIENTATION == 98
DECAY_TAP == 92
\* milliseconds
TYPING_RESET == 1000
TAP_RESET == 1000
FIXED_LETTERS == 3
THROTTLE_MOUSE == 64
THROTTLE_ORIENTATION == 128
\* 0.1 in hundredths
FRAME_SKIP_THRESHOLD == 10
FRAME_TIME_THRESHOLD == 50
INACTIVITY_TIMEOUT == 2000

(***************************************************************************)
(* Fixed-point helpers                                                     *)
(***************************************************************************)
FP(x) == x * 100

Max(a, b) == IF a >= b THEN a ELSE b
Min(a, b) == IF a <= b THEN a ELSE b
Abs(a) == IF a >= 0 THEN a ELSE -a

\* integer division truncating toward zero, as a double product rounds
\* symmetrically around zero
TruncDiv(a, b) == IF a >= 0 THEN a \div b ELSE -((-a) \div b)

\* product and quotient of two fixed-point values
FMul(a, b) == TruncDiv(a * b, 100)
FDiv(a, b) == TruncDiv(a * 100, b)

\* IEEE Infinity, produced by a division by a zero interval
Infinity == 100000000

\* x * f for a factor f in hundredths; Infinity * f = Infinity
Scaled(x, f) == IF x >= Infinity THEN Infinity ELSE TruncDiv(x * f, 100)

RECURSIVE ISqrtBetween(_, _, _)
ISqrtBetween(n, lo, hi) ==
  IF lo >= hi THEN lo
  ELSE LET mid == (lo + hi + 1) \div 2
       IN IF mid * mid <= n THEN ISqrtBetween(n, mid, hi)
                            ELSE ISqrtBetween(n, lo, mid - 1)

\* Math.sqrt of an integer number of px^2, as a fixed-point number of px
\* (exact to one decimal)
Sqrt(n) == ISqrtBetween(n * 100, 0, 46000) * 10

\* Math.sin of an angle in hundredths of a radian; result in hundredths.
\* 314 and 628 are pi and 2*pi in hundredths.
SinHalf(x) == (16 * x * (314 - x) * 100) \div (5 * 314 * 314 - 4 * x * (314 - x))
Sin(a) ==
  LET x == a % 628
  IN IF x <= 314 THEN SinHalf(x) ELSE -SinHalf(x - 314)
Cos(a) == Sin(a + 157)

(***************************************************************************)
(* EffectCalculator (script.js:1133-1234)                                  *)
(* mouseX, mouseY and the rect centre are px; time is seconds in           *)
(* hundredths; qualityLevel and all state amplitudes are hundredths.       *)
(***************************************************************************)
ZeroEffect == [weight |-> 0, distortion |-> 0]

\* calculateMouseEffects with both early returns taken out: what the
\* arithmetic below them yields for a letter that is out of range
calculateMouseEffectsUnguarded(mouseX, mouseY, letterRect, index, time, state, qualityLevel) ==
  LET dx == mouseX - letterRect.centerX
      dy == mouseY - letterRect.centerY
      dist == Sqrt(dx * dx + dy * dy)
      falloffFactor == Max(0, 100 - FDiv(dist, FP(MOUSE_FALLOFF)))
      qualityMultiplier == Max(50, qualityLevel)
      bounceOffset == FMul(FMul(Sin(time * 3 + index * 30) * 8, falloffFactor),
                           qualityMultiplier)
      velocityEffect == FMul(Min(FP(20), TruncDiv(state.mouseVelocity, 10)), falloffFactor)
      baseDistortion == FMul(Max(0, FP(DISTORTION_MAX) - TruncDiv(dist, 8)), falloffFactor)
      baseWeight == FMul(Max(FP(WEIGHT_MIN), FP(WEIGHT_MAX) - TruncDiv(dist, 15)),
                         falloffFactor)
  IN [weight |-> Max(FP(WEIGHT_MIN),
                     Min(FP(WEIGHT_MAX), baseWeight + bounceOffset + velocityEffect)),
      distortion |-> Max(0, Min(FP(DISTORTION_MAX), baseDistortion))]

calculateMouseEffects(mouseX, mouseY, letterRect, index, time, state, qualityLevel) ==
  LET dx == mouseX - letterRect.centerX
      dy == mouseY - letterRect.centerY
      distSquared == dx * dx + dy * dy
  IN
  IF distSquared >= MOUSE_RANGE * MOUSE_RANGE THEN ZeroEffect
  ELSE
  LET dist == Sqrt(distSquared)
      falloffFactor == Max(0, 100 - FDiv(dist, FP(MOUSE_FALLOFF)))
  IN
  IF falloffFactor < FRAME_SKIP_THRESHOLD THEN ZeroEffect
  ELSE
  LET qualityMultiplier == Max(50, qualityLevel)
      timeIndex == time + index * 50
      timeIndex3 == time * 3 + index * 30
      waveFrequency == IF qualityLevel > 70 THEN 2 ELSE 1
      waveOffset == FMul(FMul(Sin(timeIndex * waveFrequency) * 15, falloffFactor),
                         qualityMultiplier)
      bounceOffset == FMul(FMul(Sin(timeIndex3) * 8, falloffFactor), qualityMultiplier)
      velocityEffect == FMul(Min(FP(20), TruncDiv(state.mouseVelocity, 10)), falloffFactor)
      velocityWave == IF qualityLevel > 50
                      THEN FMul(FMul(Sin(time * 8 + index * 80), velocityEffect),
                                qualityMultiplier)
                      ELSE 0
      distRatio == TruncDiv(dist, 8)
      baseDistortion == FMul(Max(0, FP(DISTORTION_MAX) - distRatio), falloffFactor)
      baseWeight == FMul(Max(FP(WEIGHT_MIN), FP(WEIGHT_MAX) - TruncDiv(dist, 15)),
                         falloffFactor)
  IN [weight |-> Max(FP(WEIGHT_MIN),
                     Min(FP(WEIGHT_MAX), baseWeight + bounceOffset + velocityEffect)),
      distortion |-> Max(0, Min(FP(DISTORTION_MAX),
                                baseDistortion + waveOffset + velocityWave))]

calculateBaselineEffects(index, time, state, qualityLevel) ==
  LET totalEffect == state.clickEffect + state.keyboardEffect + state.tapEffect
                     + Abs(state.verticalTilt) + Abs(state.horizontalTilt)
  IN
  IF totalEffect < FRAME_SKIP_THRESHOLD
  THEN [weight |-> FP(WEIGHT_BASELINE), distortion |-> FP(DISTORTION_BASELINE)]
  ELSE
  LET baselineWeight == FP(WEIGHT_BASELINE)
      baselineDistortion == FP(DISTORTION_BASELINE)
      qualityMultiplier == Max(50, qualityLevel)
      timeIndex == time + index * 40
      timeIndex6 == time * 6 + index * 60
      \* amplitude * sine * impulse * quality
      Wave(s, amp, impulse) == FMul(FMul(s * amp, impulse), qualityMultiplier)
      clickWave == Wave(Sin(time * 12 + timeIndex), 15, state.clickEffect)
      clickBounce == Wave(Sin(timeIndex6), 10, state.clickEffect)
      chaosFactor == Min(200, TruncDiv(state.typingSpeed, 3))
      keyboardWave == Wave(Sin(FMul(time, 2000 + chaosFactor * 10) + index * 30),
                           25, state.keyboardEffect)
      keyboardBounce == Wave(Sin(FMul(time, 800 + chaosFactor * 5) + index * 70),
                             15, state.keyboardEffect)
      chaosWave1 == IF qualityLevel > 60
                    THEN Wave(Sin(time * 30 + index * 90), 10,
                              FMul(state.keyboardEffect, chaosFactor))
                    ELSE 0
      chaosWave2 == IF qualityLevel > 60
                    THEN Wave(Cos(time * 25 + index * 20), 8,
                              FMul(state.keyboardEffect, chaosFactor))
                    ELSE 0
      tapChaosFactor == Min(200, TruncDiv(state.tapSpeed, 3))
      tapWave == Wave(Sin(FMul(time, 1800 + tapChaosFactor * 8) + index * 40),
                      20, state.tapEffect)
      tapBounce == Wave(Sin(FMul(time, 600 + tapChaosFactor * 4) + index * 80),
                        12, state.tapEffect)
      tapChaosWave1 == IF qualityLevel > 60
                       THEN Wave(Sin(time * 28 + index * 70), 8,
                                 FMul(state.tapEffect, tapChaosFactor))
                       ELSE 0
      tapChaosWave2 == IF qualityLevel > 60
                       THEN Wave(Cos(time * 22 + index * 30), 6,
                                 FMul(state.tapEffect, tapChaosFactor))
                       ELSE 0
      orientationDistortion == Min(FP(DISTORTION_MAX), state.verticalTilt * 60)
      orientationWeight == Min(FP(WEIGHT_MAX) - FP(WEIGHT_BASELINE),
                               state.horizontalTilt * 80)
      finalWeight == baselineWeight + clickBounce + keyboardBounce + tapBounce
                     + orientationWeight
      finalDistortion == baselineDistortion + clickWave + keyboardWave + chaosWave1
                         + chaosWave2 + tapWave + tapChaosWave1 + tapChaosWave2
                         + orientationDistortion
  IN [weight |-> finalWeight, distortion |-> finalDistortion]


(***************************************************************************)
(* Bounds of the model                                                     *)
(***************************************************************************)
\* letters in #splash; the last FIXED_LETTERS of them are fixed
NumLetters == 5
\* the clock stops advancing here (ms since page load)
MaxClock == 2700
\* computed frames per run (frames that reach endFrame)
MaxFrames == 2
\* input events per run, the unload (destroy) included
MaxEvents == 2
\* Date.now() at page load, ms; any value above TYPING_RESET, so that the
\* first key or tap is never within the typing window of lastKeyTime = 0
EpochOffset == 5000

\* JavaScript null
Null == -1

\* IEEE NaN, as a sensor reading: no number, and not null either
NaN == 0 - (Infinity + 1)

Letters == 0 .. (NumLetters - 1)

\* ms the clock may advance between two callbacks: less than TYPING_RESET,
\* more than both throttle delays; three of them exceed INACTIVITY_TIMEOUT
ClockSteps == {900}
\* measured cost of one computed frame, ms: a fast frame and a stalled one
FrameCosts == {0, 900}
\* pointer positions, px: on letter 0 and far from every letter
PointerPositions == {<<100, 100>>, <<3000, 3000>>}
\* deviceorientation readings <<beta, gamma>> in degrees; Null is a
\* missing reading
OrientationReadings == {<<120, -60>>, <<Null, Null>>}

(***************************************************************************)
(* State                                                                   *)
(***************************************************************************)
VARIABLES
  clock,            \* performance.now(), ms since page load
  state,            \* InteractiveState
  letterData,       \* InteractiveTextApp.letterData, by letter index
  pm,               \* PerformanceMonitor
  isVisible, isActive, lastActivityTime, frameSkipCounter,
  targetFrameRate, animationId,    \* InteractiveTextApp fields
  mouseThrottler, orientationThrottler,   \* Throttler objects and their timer
  docHidden,        \* document.hidden
  listeners,        \* event types with a registered listener
  rafPending,       \* ids of requestAnimationFrame callbacks not yet run
  rafTimers,        \* due times of pending setTimeout reschedules of animate
  destroyed,        \* destroy() has been called
  events,           \* input events so far (bounded)
  skippedRun,       \* animate callbacks in a row that computed nothing while
                    \* the page was visible and focused
  last,             \* what the most recent callback did
  calc,             \* the Effect Calculator exercised on its own (SpecCalc)
  dom,              \* a DOMCache and the layout it measures (SpecCache)
  mon,              \* a PerformanceMonitor over a long run of frames (SpecMonitor)
  sensors,          \* MobileSensorManager and the permission store (SpecSensors)
  thr,              \* a Throttler and its timers under bursts (SpecThrottle)
  simple,           \* the simplified engine's impulses (SpecSimple)
  vis,              \* the visibility and focus signals so far (SpecResume)
  perm,             \* motion permission requests in flight (SpecPermission)
  modal,            \* ModalManager and the page around it (SpecModal)
  form,             \* the simplified engine's form submissions (SpecForms)
  spark,            \* a Formspark submission (SpecFormspark)
  react,            \* a React form's status (SpecReactForm)
  typing            \* the ContactForm auto-typing effect (SpecTyping)

engineVars == <<clock, state, letterData, pm, isVisible, isActive, lastActivityTime,
                frameSkipCounter, targetFrameRate, animationId, mouseThrottler,
                orientationThrottler, docHidden, listeners, rafPending,
                rafTimers, destroyed, events, skippedRun, last>>

\* variables of the other specifications, which the engine leaves alone
pageVars == <<perm, modal, form, spark, react, typing>>

otherVars == <<calc, dom, mon, sensors, thr, simple, vis, pageVars>>

vars == <<engineVars, otherVars>>

DateNow == EpochOffset + clock

\* seconds in hundredths from a time in ms (x * 0.001)
Seconds(ms) == ms \div 10

(***************************************************************************)
(* InteractiveState (script.js:1080-1130)                                  *)
(***************************************************************************)
InitialState ==
  [mouseActive |-> FALSE, lastMouseX |-> 0, lastMouseY |-> 0, mouseVelocity |-> 0,
   clickEffect |-> 0,
   keyboardEffect |-> 0, lastKeyTime |-> 0, keyCount |-> 0, typingSpeed |-> 0,
   maxTypingSpeed |-> 0,
   deviceOrientation |-> [alpha |-> 0, beta |-> 0, gamma |-> 0],
   orientationEffect |-> 0, verticalTilt |-> 0, horizontalTilt |-> 0,
   tapEffect |-> 0, lastTapTime |-> 0, tapCount |-> 0, tapSpeed |-> 0]

updateDecay(s, dateNow) ==
  LET s1 == [s EXCEPT !.clickEffect = Scaled(@, DECAY_CLICK),
                      !.keyboardEffect = Scaled(@, DECAY_KEYBOARD),
                      !.orientationEffect = Scaled(@, DECAY_ORIENTATION),
                      !.tapEffect = Scaled(@, DECAY_TAP)]
      s2 == IF dateNow - s1.lastKeyTime > TYPING_RESET
            THEN [s1 EXCEPT !.typingSpeed = Scaled(@, 98),
                            !.keyCount = Max(0, @ - 10)]
            ELSE s1
  IN IF dateNow - s2.lastTapTime > TAP_RESET
     THEN [s2 EXCEPT !.tapSpeed = Scaled(@, 98),
                     !.tapCount = Max(0, @ - 10)]
     ELSE s2


(***************************************************************************)
(* PerformanceMonitor (script.js:759-798).  frameTimes and lastFrameTime   *)
(* are ms; qualityLevel is in hundredths.                                  *)
(***************************************************************************)
InitialMonitor ==
  [frameTimes |-> [i \in 0 .. 59 |-> 0], frameIndex |-> 0, lastFrameTime |-> 0,
   qualityLevel |-> 100, frameCount |-> 0]

RECURSIVE SumTo(_, _)
SumTo(f, n) == IF n < 0 THEN 0 ELSE f[n] + SumTo(f, n - 1)

startFrame(m, perfNow) == [m EXCEPT !.lastFrameTime = perfNow]

\* the average of frameTimes, ms in hundredths
getAverageFrameTime(m) ==
  IF m.frameCount = 0 THEN 0
  ELSE TruncDiv(FP(SumTo(m.frameTimes, 59)), m.frameCount)

\* a / b to the nearest hundredth, for a >= 0
RoundDiv(a, b) == (2 * a + b) \div (2 * b)

\* endFrame without Math.max(0.3, ...) and Math.min(1.0, ...)
endFrameUnclamped(m, perfNow) ==
  LET frameTime == perfNow - m.lastFrameTime
      m1 == [m EXCEPT !.frameTimes[m.frameIndex] = frameTime,
                      !.frameIndex = (@ + 1) % 60,
                      !.frameCount = Min(@ + 1, 60)]
      avgFrameTime == getAverageFrameTime(m1)
  IN IF m1.frameCount >= 30
     THEN IF avgFrameTime > (FP(FRAME_TIME_THRESHOLD) * 12) \div 10
          THEN [m1 EXCEPT !.qualityLevel = RoundDiv(@ * 95, 100)]
          ELSE IF avgFrameTime < (FP(FRAME_TIME_THRESHOLD) * 8) \div 10
               THEN [m1 EXCEPT !.qualityLevel = RoundDiv(@ * 102, 100)]
               ELSE m1
     ELSE m1

\* endFrame without its frameCount >= 30 condition
endFrameFromFirstSample(m, perfNow) ==
  LET frameTime == perfNow - m.lastFrameTime
      m1 == [m EXCEPT !.frameTimes[m.frameIndex] = frameTime,
                      !.frameIndex = (@ + 1) % 60,
                      !.frameCount = Min(@ + 1, 60)]
      avgFrameTime == getAverageFrameTime(m1)
  IN IF avgFrameTime > (FP(FRAME_TIME_THRESHOLD) * 12) \div 10
     THEN [m1 EXCEPT !.qualityLevel = Max(30, RoundDiv(@ * 95, 100))]
     ELSE IF avgFrameTime < (FP(FRAME_TIME_THRESHOLD) * 8) \div 10
          THEN [m1 EXCEPT !.qualityLevel = Min(100, RoundDiv(@ * 102, 100))]
          ELSE m1

endFrame(m, perfNow) ==
  LET frameTime == perfNow - m.lastFrameTime
      m1 == [m EXCEPT !.frameTimes[m.frameIndex] = frameTime,
                      !.frameIndex = (@ + 1) % 60,
                      !.frameCount = Min(@ + 1, 60)]
      avgFrameTime == getAverageFrameTime(m1)
  IN IF m1.frameCount >= 30
     THEN IF avgFrameTime > (FP(FRAME_TIME_THRESHOLD) * 12) \div 10
          THEN [m1 EXCEPT !.qualityLevel = Max(30, RoundDiv(@ * 95, 100))]
          ELSE IF avgFrameTime < (FP(FRAME_TIME_THRESHOLD) * 8) \div 10
               THEN [m1 EXCEPT !.qualityLevel = Min(100, RoundDiv(@ * 102, 100))]
               ELSE m1
     ELSE m1

(***************************************************************************)
(* Letters (script.js:1671-1684, 1886-1932).  The layout is static: letter *)
(* i is a box centred at Rect(i), which is what getRect measures.          *)
(***************************************************************************)
getRect(i) == [centerX |-> 100 + 60 * i, centerY |-> 100]

\* precalculateLetterData marking no letter as fixed
precalculateLetterDataNoneFixed ==
  [i \in Letters |->
    [index |-> i, isFixed |-> FALSE,
     lastWeight |-> Null, lastDistortion |-> Null, lastColor |-> "null",
     style |-> [wght |-> Null, dist |-> Null, color |-> "null"]]]

precalculateLetterData ==
  [i \in Letters |->
    [index |-> i, isFixed |-> i >= NumLetters - FIXED_LETTERS,
     lastWeight |-> Null, lastDistortion |-> Null, lastColor |-> "null",
     style |-> [wght |-> Null, dist |-> Null, color |-> "null"]]]

\* Number.toFixed(1) of a fixed-point value: rounded to one decimal
ToFixed1(x) == ((x + 5) \div 10) * 10

\* The style properties one call of updateLetterStyles assigns, in order:
\* the conditions of script.js:1902 and 1928.
styleWrites(ld, weight, distortion, color) ==
  (IF ld.lastWeight # weight \/ ld.lastDistortion # distortion
   THEN <<"fontVariationSettings">> ELSE <<>>)
  \o (IF color # "null" /\ ld.lastColor # color THEN <<"color">> ELSE <<>>)

\* updateLetterStyles without the two assignments of script.js:1923-1924:
\* the values it applied are not remembered
updateLetterStylesForgetful(ld, weight, distortion, color) ==
  LET a == IF ld.lastWeight # weight \/ ld.lastDistortion # distortion
           THEN [ld EXCEPT !.style.wght = ToFixed1(weight),
                           !.style.dist = ToFixed1(distortion)]
           ELSE ld
  IN IF color # "null" /\ a.lastColor # color
     THEN [a EXCEPT !.style.color = color, !.lastColor = color]
     ELSE a

updateLetterStyles(ld, weight, distortion, color) ==
  LET a == IF ld.lastWeight # weight \/ ld.lastDistortion # distortion
           THEN [ld EXCEPT !.style.wght = ToFixed1(weight),
                           !.style.dist = ToFixed1(distortion),
                           !.lastWeight = weight,
                           !.lastDistortion = distortion]
           ELSE ld
  IN IF color # "null" /\ a.lastColor # color
     THEN [a EXCEPT !.style.color = color, !.lastColor = color]
     ELSE a

updateFixedLetter(ld) ==
  updateLetterStyles(ld, FP(WEIGHT_BASELINE), FP(DISTORTION_BASELINE), "#FFFFFF")

\* updateLetter with the clamps of script.js:1974-1975 left out: the mouse
\* effect is added to the baseline effect and written as it is
updateLetterUnclamped(ld, time, s, qualityLevel) ==
  LET hasActiveEffects == \/ s.clickEffect > 1
                          \/ s.keyboardEffect > 1
                          \/ s.tapEffect > 1
                          \/ Abs(s.verticalTilt) > 1
                          \/ Abs(s.horizontalTilt) > 1
      baselineEffects == calculateBaselineEffects(ld.index, time, s, qualityLevel)
      baseWeight == IF hasActiveEffects
                    THEN Max(FP(WEIGHT_MIN), Min(FP(WEIGHT_MAX), baselineEffects.weight))
                    ELSE FP(WEIGHT_BASELINE)
      baseDistortion == IF hasActiveEffects
                        THEN Max(0, Min(FP(DISTORTION_MAX), baselineEffects.distortion))
                        ELSE FP(DISTORTION_BASELINE)
      mouseEffects == calculateMouseEffects(s.lastMouseX, s.lastMouseY, getRect(ld.index),
                                            ld.index, time, s, qualityLevel)
  IN IF ld.isFixed
     THEN [ld |-> updateFixedLetter(ld), ops |-> <<"fixed">>]
     ELSE [ld |-> updateLetterStyles(
                    ld,
                    IF s.mouseActive THEN baseWeight + mouseEffects.weight ELSE baseWeight,
                    IF s.mouseActive THEN baseDistortion + mouseEffects.distortion
                                     ELSE baseDistortion,
                    "null"),
           ops |-> <<"write">>]

\* One letter's part of updateLetters' forEach: the letter record after it
\* and the calls it made, in order.
updateLetter(ld, time, s, qualityLevel) ==
  LET hasActiveEffects == \/ s.clickEffect > 1
                          \/ s.keyboardEffect > 1
                          \/ s.tapEffect > 1
                          \/ Abs(s.verticalTilt) > 1
                          \/ Abs(s.horizontalTilt) > 1
  IN
  IF ld.isFixed
  THEN [ld |-> updateFixedLetter(ld), ops |-> <<"fixed">>]
  ELSE
  LET baselineEffects == calculateBaselineEffects(ld.index, time, s, qualityLevel)
      baseWeight == IF hasActiveEffects
                    THEN Max(FP(WEIGHT_MIN), Min(FP(WEIGHT_MAX), baselineEffects.weight))
                    ELSE FP(WEIGHT_BASELINE)
      baseDistortion == IF hasActiveEffects
                        THEN Max(0, Min(FP(DISTORTION_MAX), baselineEffects.distortion))
                        ELSE FP(DISTORTION_BASELINE)
      mouseEffects == calculateMouseEffects(s.lastMouseX, s.lastMouseY, getRect(ld.index),
                                            ld.index, time, s, qualityLevel)
      finalWeight == IF s.mouseActive
                     THEN Max(FP(WEIGHT_MIN),
                              Min(FP(WEIGHT_MAX), baseWeight + mouseEffects.weight))
                     ELSE baseWeight
      finalDistortion == IF s.mouseActive
                         THEN Max(0, Min(FP(DISTORTION_MAX),
                                         baseDistortion + mouseEffects.distortion))
                         ELSE baseDistortion
  IN [ld |-> updateLetterStyles(ld, finalWeight, finalDistortion, "null"),
      ops |-> (IF hasActiveEffects THEN <<"baseline">> ELSE <<>>)
              \o (IF s.mouseActive THEN <<"mouse">> ELSE <<>>)
              \o <<"write">>]

RECURSIVE OpsUpTo(_, _)
OpsUpTo(f, n) == IF n < 0 THEN <<>> ELSE OpsUpTo(f, n - 1) \o f[n].ops

updateLetters(lds, time, s, qualityLevel) ==
  LET r == [i \in Letters |-> updateLetter(lds[i], time, s, qualityLevel)]
  IN [letterData |-> [i \in Letters |-> r[i].ld],
      ops |-> OpsUpTo(r, NumLetters - 1)]


(***************************************************************************)
(* DOMCache (script.js:801-880).  A rect object is a key of rects, the     *)
(* heap of the rect objects that are still referenced; cache and           *)
(* timestamps are the two Maps, order is their common insertion order,     *)
(* rectPool the free pool (pop takes its last object).  Times are ms,      *)
(* geometry is px.                                                         *)
(***************************************************************************)
\* CONFIG.CACHE
RECT_DURATION == 100
MAX_CACHE_SIZE == 50
\* DOMCache.poolSize
POOL_SIZE == 20

NewDOMCache ==
  [cache |-> <<>>, timestamps |-> <<>>, order |-> <<>>, rects |-> <<>>,
   rectPool |-> <<>>]

\* element.getBoundingClientRect(): element el is a box 60 px wide and 80 px
\* high, the el-th of a row; each change of layout moves the row 10 px
getBoundingClientRect(el, layout) ==
  [left |-> 70 + 60 * el + 10 * layout, top |-> 60, width |-> 60, height |-> 80]

\* the fields getRect stores in a rect object (script.js:831-836)
MeasuredRect(rect) ==
  [left |-> rect.left, top |-> rect.top, width |-> rect.width, height |-> rect.height,
   centerX |-> rect.left + rect.width \div 2,
   centerY |-> rect.top + rect.height \div 2]

\* a function without the key k
Without(f, k) == [x \in (DOMAIN f) \ {k} |-> f[x]]

\* the rect objects that the cache or the pool still refers to
Referenced(c) ==
  {c.cache[k] : k \in DOMAIN c.cache} \cup {c.rectPool[n] : n \in DOMAIN c.rectPool}

\* the heap without the objects nothing refers to any more
collect(c) == [c EXCEPT !.rects = [r \in Referenced(c) |-> @[r]]]

\* `{}`: an object different from every object of the heap
NewObject(c) ==
  CHOOSE r \in 1 .. (Cardinality(DOMAIN c.rects) + 1) :
    /\ r \notin DOMAIN c.rects
    /\ \A q \in 1 .. (r - 1) : q \in DOMAIN c.rects

\* the forEach of cleanup over toDelete[n .. Len(toDelete)]
RECURSIVE cleanupDelete(_, _, _)
cleanupDelete(c, toDelete, n) ==
  IF n > Len(toDelete) THEN c
  ELSE LET key == toDelete[n]
           rect == c.cache[key]
       IN cleanupDelete(
            [c EXCEPT !.rectPool = IF Len(@) < POOL_SIZE THEN Append(@, rect) ELSE @,
                      !.cache = Without(@, key),
                      !.timestamps = Without(@, key),
                      !.order = SelectSeq(@, LAMBDA k : k # key)],
            toDelete, n + 1)

\* cleanup evicting every entry older than a quarter of the cache duration
cleanupEager(c, now) ==
  IF Cardinality(DOMAIN c.cache) > MAX_CACHE_SIZE
  THEN collect(cleanupDelete(c, SelectSeq(c.order,
                                          LAMBDA k : now - c.timestamps[k] > RECT_DURATION \div 4),
                             1))
  ELSE c

cleanup(c, now) ==
  IF Cardinality(DOMAIN c.cache) > MAX_CACHE_SIZE
  THEN collect(cleanupDelete(c, SelectSeq(c.order,
                                          LAMBDA k : now - c.timestamps[k] > RECT_DURATION * 2),
                             1))
  ELSE c

\* DOMCache.getRect(el) at time now: the cache afterwards, the rect object
\* returned, and whether the element was measured
domGetRect(c, el, now, layout) ==
  IF el \in DOMAIN c.cache /\ now - c.timestamps[el] < RECT_DURATION
  THEN [c |-> c, rect |-> c.cache[el], measured |-> FALSE]
  ELSE LET pooled == Len(c.rectPool) > 0
           cachedRect == IF pooled THEN c.rectPool[Len(c.rectPool)] ELSE NewObject(c)
           values == MeasuredRect(getBoundingClientRect(el, layout))
           c1 == [c EXCEPT
                    !.rectPool = IF pooled THEN SubSeq(@, 1, Len(@) - 1) ELSE @,
                    !.rects = (cachedRect :> values) @@ @,
                    !.order = IF el \in DOMAIN c.cache THEN @ ELSE Append(@, el),
                    !.cache = (el :> cachedRect) @@ @,
                    !.timestamps = (el :> now) @@ @]
       IN [c |-> cleanup(collect(c1), now), rect |-> cachedRect, measured |-> TRUE]

\* the for-of of clear over order[n .. Len(order)]
\* the for-of of clear pushing every rect, whatever the size of the pool
RECURSIVE clearPushUnbounded(_, _, _)
clearPushUnbounded(pool, c, n) ==
  IF n > Len(c.order) THEN pool
  ELSE clearPushUnbounded(Append(pool, c.cache[c.order[n]]), c, n + 1)

RECURSIVE clearPush(_, _, _)
clearPush(pool, c, n) ==
  IF n > Len(c.order) THEN pool
  ELSE clearPush(IF Len(pool) < POOL_SIZE THEN Append(pool, c.cache[c.order[n]])
                                          ELSE pool,
                 c, n + 1)

\* DOMCache.clear()
domClear(c) ==
  collect([c EXCEPT !.rectPool = clearPush(@, c, 1),
                    !.cache = <<>>, !.timestamps = <<>>, !.order = <<>>])

(***************************************************************************)
(* Throttler (script.js:883-909).  timer is the setTimeout the throttler   *)
(* has scheduled, if it is still pending; pendingCall is whether the field *)
(* holds a timer id (it is never reset to null).                           *)
(***************************************************************************)
NoTimer == [live |-> FALSE, due |-> 0, args |-> <<0, 0>>]

NewThrottler == [lastCall |-> 0, pendingCall |-> FALSE, timer |-> NoTimer]

\* The wrapper returned by throttle(func), called at perfNow with args:
\* the throttler afterwards, and whether func runs now.
throttle(t, delay, perfNow, args) ==
  IF perfNow - t.lastCall >= delay
  THEN [t |-> [t EXCEPT !.lastCall = perfNow], call |-> TRUE]
  ELSE [t |-> [t EXCEPT !.pendingCall = TRUE,
                        !.timer = [live |-> TRUE,
                                   due |-> perfNow + (delay - (perfNow - t.lastCall)),
                                   args |-> args]],
        call |-> FALSE]

\* the throttler after its timer fired at perfNow
timerFired(t, perfNow) == [t EXCEPT !.lastCall = perfNow, !.timer = NoTimer]

\* clearTimeout(t.pendingCall), guarded by `if (t.pendingCall)`
clearPending(t) == IF t.pendingCall THEN [t EXCEPT !.timer = NoTimer] ELSE t

(***************************************************************************)
(* The Throttler with the browser's timer table spelled out: timers is     *)
(* the set of setTimeout callbacks not yet run, pendingCall the id the     *)
(* last setTimeout returned (Null before the first).  at is the time of    *)
(* the event a timer carries.                                              *)
(***************************************************************************)
NewTimedThrottler == [lastCall |-> 0, pendingCall |-> Null, timers |-> {}, nextId |-> 1]

\* clearTimeout(id)
clearTimeout(timers, id) == {tm \in timers : tm.id # id}

\* the wrapper of throttle(func) without its clearTimeout
throttleCallKeeping(t, delay, perfNow, args) ==
  IF perfNow - t.lastCall >= delay
  THEN [t |-> [t EXCEPT !.lastCall = perfNow], call |-> TRUE]
  ELSE [t |-> [t EXCEPT !.pendingCall = t.nextId,
                        !.nextId = @ + 1,
                        !.timers = @ \cup
                                     {[id |-> t.nextId,
                                       due |-> perfNow + (delay - (perfNow - t.lastCall)),
                                       args |-> args, at |-> perfNow]}],
        call |-> FALSE]

\* the wrapper returned by throttle(func), called at perfNow with args
throttleCall(t, delay, perfNow, args) ==
  IF perfNow - t.lastCall >= delay
  THEN [t |-> [t EXCEPT !.lastCall = perfNow], call |-> TRUE]
  ELSE [t |-> [t EXCEPT !.pendingCall = t.nextId,
                        !.nextId = @ + 1,
                        !.timers = (IF t.pendingCall # Null
                                    THEN clearTimeout(@, t.pendingCall) ELSE @)
                                     \cup
                                     {[id |-> t.nextId,
                                       due |-> perfNow + (delay - (perfNow - t.lastCall)),
                                       args |-> args, at |-> perfNow]}],
        call |-> FALSE]

\* the setTimeout callback tm run at perfNow
throttleTimer(t, tm, perfNow) ==
  [t EXCEPT !.lastCall = perfNow, !.timers = @ \ {tm}]

(***************************************************************************)
(* Input handlers of InteractiveTextApp and MobileSensorManager            *)
(***************************************************************************)
\* script.js:1783-1821; e is <<clientX, clientY>>
handleMouseMove(e, s, lds, dateNow, qualityLevel) ==
  LET time == Seconds(dateNow)
      dx == e[1] - s.lastMouseX
      dy == e[2] - s.lastMouseY
      s1 == [s EXCEPT !.mouseVelocity = Sqrt(dx * dx + dy * dy),
                      !.lastMouseX = e[1],
                      !.lastMouseY = e[2]]
      effects == [i \in Letters |->
                   calculateMouseEffects(e[1], e[2], getRect(i), i, time, s1, qualityLevel)]
      affected == [i \in Letters |->
                    ~lds[i].isFixed /\ (effects[i].weight > 0 \/ effects[i].distortion > 0)]
      r == [i \in Letters |->
             IF lds[i].isFixed
             THEN [ld |-> updateFixedLetter(lds[i]), ops |-> <<"fixed">>]
             ELSE IF affected[i]
                  THEN [ld |-> updateLetterStyles(lds[i], effects[i].weight,
                                                  effects[i].distortion, "null"),
                        ops |-> <<"mouse", "write">>]
                  ELSE [ld |-> lds[i], ops |-> <<"mouse">>]]
  IN [state |-> [s1 EXCEPT !.mouseActive = \E i \in Letters : affected[i]],
      letterData |-> [i \in Letters |-> r[i].ld],
      lastActivityTime |-> dateNow,
      ops |-> OpsUpTo(r, NumLetters - 1)]

\* the click listener adding to the click impulse instead of resetting it
handleClickAdding(s, one) == [s EXCEPT !.clickEffect = @ + one]

\* the click listener's write to the state (script.js:1735-1736); one is 1.0
\* in the unit the amplitudes are counted in
handleClick(s, one) == [s EXCEPT !.clickEffect = one]

\* handleKeyDown resetting the click impulse as well
handleKeyDownSharing(s, now) ==
  LET timeSinceLastKey == now - s.lastKeyTime
      s1 == IF timeSinceLastKey < TYPING_RESET
            THEN LET keyCount == s.keyCount + 100
                     typingSpeed == IF timeSinceLastKey = 0 THEN Infinity
                                    ELSE TruncDiv(keyCount * 1000, timeSinceLastKey)
                 IN [s EXCEPT !.keyCount = keyCount,
                              !.typingSpeed = typingSpeed,
                              !.maxTypingSpeed = Max(@, typingSpeed)]
            ELSE [s EXCEPT !.keyCount = 100, !.typingSpeed = 100]
      speedMultiplier == Min(300, TruncDiv(s1.typingSpeed, 2))
  IN [s1 EXCEPT !.lastKeyTime = now, !.keyboardEffect = speedMultiplier,
                !.clickEffect = 0]

\* script.js:1823-1839
handleKeyDown(s, now) ==
  LET timeSinceLastKey == now - s.lastKeyTime
      s1 == IF timeSinceLastKey < TYPING_RESET
            THEN LET keyCount == s.keyCount + 100
                     typingSpeed == IF timeSinceLastKey = 0 THEN Infinity
                                    ELSE TruncDiv(keyCount * 1000, timeSinceLastKey)
                 IN [s EXCEPT !.keyCount = keyCount,
                              !.typingSpeed = typingSpeed,
                              !.maxTypingSpeed = Max(@, typingSpeed)]
            ELSE [s EXCEPT !.keyCount = 100, !.typingSpeed = 100]
      speedMultiplier == Min(300, TruncDiv(s1.typingSpeed, 2))
  IN [s1 EXCEPT !.lastKeyTime = now, !.keyboardEffect = speedMultiplier]

\* script.js:1841-1856
handleTouchStart(s, now) ==
  LET timeSinceLastTap == now - s.lastTapTime
      s1 == IF timeSinceLastTap < TAP_RESET
            THEN LET tapCount == s.tapCount + 100
                 IN [s EXCEPT !.tapCount = tapCount,
                              !.tapSpeed = IF timeSinceLastTap = 0 THEN Infinity
                                           ELSE TruncDiv(tapCount * 1000, timeSinceLastTap)]
            ELSE [s EXCEPT !.tapCount = 100, !.tapSpeed = 100]
      speedMultiplier == Min(300, TruncDiv(s1.tapSpeed, 2))
  IN [s1 EXCEPT !.lastTapTime = now, !.tapEffect = speedMultiplier]

\* the deviceorientation handler, script.js:1387-1407; e is <<beta, gamma>>
\* in whole degrees (alpha is not read by any effect and is missing here)
handleOrientation(s, e) ==
  LET alpha == 0
      beta == IF e[1] # Null THEN e[1] ELSE 0
      gamma == IF e[2] # Null THEN e[2] ELSE 0
      \* every comparison with NaN is false
      validBeta == IF beta # NaN /\ beta >= 0 /\ beta <= 180 THEN beta ELSE 90
      validGamma == IF gamma # NaN /\ gamma >= -180 /\ gamma <= 180 THEN gamma ELSE 0
      verticalTilt == Min(100, FDiv(Abs(validBeta - 90), TILT_SENSITIVITY))
      horizontalTilt == Min(100, FDiv(Abs(validGamma), TILT_SENSITIVITY))
  IN [s EXCEPT !.deviceOrientation = [alpha |-> alpha, beta |-> validBeta,
                                      gamma |-> validGamma],
               !.verticalTilt = verticalTilt,
               !.horizontalTilt = horizontalTilt,
               !.orientationEffect = Min(100, (verticalTilt + horizontalTilt) \div 2)]

(***************************************************************************)
(* MobileSensorManager's permission flow (script.js:1237-1384).  store is  *)
(* the value of localStorage's motionEffectsEnabled ("null" when absent);  *)
(* fails says that localStorage throws on this access.  A method returns   *)
(* what it computes and threw, whether an exception leaves it.             *)
(***************************************************************************)
\* listeners counts the deviceorientation listeners the manager has added
NewSensorManager ==
  [isInitialized |-> FALSE, permissionContainer |-> FALSE, listening |-> FALSE,
   listeners |-> 0]

\* localStorage.getItem('motionEffectsEnabled')
getItem(store, fails) == [threw |-> fails, value |-> store]

\* checkStoredPermission without its try / catch
checkStoredPermissionUncaught(store, fails) ==
  [threw |-> getItem(store, fails).threw,
   value |-> ~getItem(store, fails).threw /\ getItem(store, fails).value = "true"]

checkStoredPermission(store, fails) ==
  IF getItem(store, fails).threw
  THEN [threw |-> FALSE, value |-> FALSE]
  ELSE [threw |-> FALSE, value |-> getItem(store, fails).value = "true"]

storePermission(store, granted, fails) ==
  IF fails
  THEN [threw |-> FALSE, store |-> store]
  ELSE [threw |-> FALSE, store |-> IF granted THEN "true" ELSE "false"]

clearStoredPermission(store, fails) ==
  IF fails
  THEN [threw |-> FALSE, store |-> store]
  ELSE [threw |-> FALSE, store |-> "null"]

\* each call wraps a new handler, so addEventListener adds one more listener
setupOrientationListener(m) == [m EXCEPT !.listening = TRUE, !.listeners = @ + 1]

showPermissionButton(m) == [m EXCEPT !.permissionContainer = TRUE]

hidePermissionButton(m) == [m EXCEPT !.permissionContainer = FALSE]

\* initialize() on a platform: "desktop", "android" (a mobile browser
\* without DeviceOrientationEvent.requestPermission) or "ios" (with it)
initialize(m, platform, store, fails) ==
  IF m.isInitialized THEN [m |-> m, threw |-> FALSE]
  ELSE IF platform = "desktop" THEN [m |-> [m EXCEPT !.isInitialized = TRUE], threw |-> FALSE]
  ELSE IF platform = "ios"
       THEN LET hasPermission == checkStoredPermission(store, fails)
            IN IF hasPermission.threw
               THEN \* catch (error): logged
                    [m |-> m, threw |-> FALSE]
               ELSE [m |-> [(IF hasPermission.value
                             THEN setupOrientationListener(m)
                             ELSE showPermissionButton(m))
                            EXCEPT !.isInitialized = TRUE],
                     threw |-> FALSE]
       ELSE [m |-> [setupOrientationListener(m) EXCEPT !.isInitialized = TRUE],
             threw |-> FALSE]

\* the click listener of the permission button; permission is the outcome
\* of DeviceOrientationEvent.requestPermission(): "granted", "denied", or
\* "error" when the request is rejected
permissionClick(m, store, permission, fails) ==
  IF permission = "granted"
  THEN [m |-> hidePermissionButton(setupOrientationListener(m)),
        store |-> storePermission(store, TRUE, fails).store,
        threw |-> storePermission(store, TRUE, fails).threw]
  ELSE [m |-> m,
        store |-> storePermission(store, FALSE, fails).store,
        threw |-> storePermission(store, FALSE, fails).threw]

\* the click listener of the dismiss button
dismissClick(m, store, fails) ==
  [m |-> hidePermissionButton(m),
   store |-> storePermission(store, FALSE, fails).store,
   threw |-> storePermission(store, FALSE, fails).threw]

(***************************************************************************)
(* The frame scheduler (script.js:1660-1669, 1982-2070)                    *)
(***************************************************************************)
detectOptimalFrameRate(isMobile, isLowEnd) == IF isMobile \/ isLowEnd THEN 15 ELSE 20

\* shouldAnimate without its visibility check (script.js:2025-2027)
shouldAnimateWhileHidden(visible, active, dateNow, activityTime, skipCounter) ==
  IF ~active THEN [result |-> FALSE, frameSkipCounter |-> skipCounter]
  ELSE IF dateNow - activityTime > INACTIVITY_TIMEOUT
       THEN IF skipCounter + 1 < 10
            THEN [result |-> FALSE, frameSkipCounter |-> skipCounter + 1]
            ELSE [result |-> TRUE, frameSkipCounter |-> 0]
       ELSE [result |-> TRUE, frameSkipCounter |-> 0]

\* shouldAnimate comparing the skip counter with <= instead of <
\* (script.js:2039): one more frame is skipped in each idle round
shouldAnimateOneMoreSkip(visible, active, dateNow, activityTime, skipCounter) ==
  IF ~visible THEN [result |-> FALSE, frameSkipCounter |-> skipCounter]
  ELSE IF ~active THEN [result |-> FALSE, frameSkipCounter |-> skipCounter]
  ELSE IF dateNow - activityTime > INACTIVITY_TIMEOUT
       THEN IF skipCounter + 1 <= 10
            THEN [result |-> FALSE, frameSkipCounter |-> skipCounter + 1]
            ELSE [result |-> TRUE, frameSkipCounter |-> 0]
       ELSE [result |-> TRUE, frameSkipCounter |-> 0]

\* shouldAnimate: its result and frameSkipCounter afterwards
\* shouldAnimate without the test of isActive
shouldAnimateUnfocused(visible, active, dateNow, activityTime, skipCounter) ==
  IF ~visible THEN [result |-> FALSE, frameSkipCounter |-> skipCounter]
  ELSE IF dateNow - activityTime > INACTIVITY_TIMEOUT
       THEN IF skipCounter + 1 < 10
            THEN [result |-> FALSE, frameSkipCounter |-> skipCounter + 1]
            ELSE [result |-> TRUE, frameSkipCounter |-> 0]
       ELSE [result |-> TRUE, frameSkipCounter |-> 0]

shouldAnimate(visible, active, dateNow, activityTime, skipCounter) ==
  IF ~visible THEN [result |-> FALSE, frameSkipCounter |-> skipCounter]
  ELSE IF ~active THEN [result |-> FALSE, frameSkipCounter |-> skipCounter]
  ELSE IF dateNow - activityTime > INACTIVITY_TIMEOUT
       THEN IF skipCounter + 1 < 10
            THEN [result |-> FALSE, frameSkipCounter |-> skipCounter + 1]
            ELSE [result |-> TRUE, frameSkipCounter |-> 0]
       ELSE [result |-> TRUE, frameSkipCounter |-> 0]

\* The delay handed to setTimeout when the frame is over budget; both
\* arguments and the result are ms in hundredths.
rescheduleDelay(targetFrameTime, frameTime) == Max(0, targetFrameTime - frameTime)

\* animateFrame with its two calls swapped: the letters are drawn from the
\* state of the previous frame and the decay comes last
animateFrameDrawFirst(s, lds, m, perfNow, dateNow, cost) ==
  LET time == Seconds(perfNow)
      drawn == updateLetters(lds, time, s, m.qualityLevel)
  IN [state |-> updateDecay(s, dateNow),
      letterData |-> drawn.letterData,
      pm |-> endFrame(m, perfNow + cost),
      ops |-> drawn.ops \o <<"decay">>]

\* The body of the animate callback once shouldAnimate said yes: decay,
\* then the letters, for a frame that starts at perfNow and costs cost ms.
animateFrame(s, lds, m, perfNow, dateNow, cost) ==
  LET time == Seconds(perfNow)
      decayed == updateDecay(s, dateNow)
      drawn == updateLetters(lds, time, decayed, m.qualityLevel)
  IN [state |-> decayed,
      letterData |-> drawn.letterData,
      pm |-> endFrame(m, perfNow + cost),
      ops |-> <<"decay">> \o drawn.ops]


(***************************************************************************)
(* Initial state: after `new InteractiveTextApp()` (script.js:1614-1642,   *)
(* 1686-1705, 1729-1759, 2020) on a desktop or on a mobile browser that    *)
(* needs no permission for deviceorientation (script.js:1268-1271).        *)
(***************************************************************************)
AppListeners == {"mousemove", "click", "keydown", "touchstart",
                 "visibilitychange", "focus", "blur"}

\* what a callback did: op names it; the other fields describe an animate
\* callback: computed (shouldAnimate said yes), ops (the calls it made, in
\* order), sched (how it rescheduled itself), delay (the setTimeout delay),
\* frameTime and targetFrameTime (the two it compared), all three ms in
\* hundredths, and skipped (skippedRun before it ran)
Did(op, ops) ==
  [op |-> op, computed |-> FALSE, ops |-> ops, sched |-> "none", delay |-> 0,
   frameTime |-> 0, targetFrameTime |-> 0, skipped |-> 0]

NoCalc == [op |-> "none"]

\* the value of a variable that the specification at hand does not use
Idle == [op |-> "none"]

PageIdle ==
  /\ perm = Idle /\ modal = Idle /\ form = Idle
  /\ spark = Idle /\ react = Idle /\ typing = Idle

EngineInit ==
  /\ clock = 0
  /\ state = InitialState
  /\ letterData = precalculateLetterData
  /\ pm = InitialMonitor
  /\ isVisible = TRUE
  /\ isActive = TRUE
  /\ lastActivityTime = DateNow
  /\ frameSkipCounter = 0
  /\ \E isMobile \in BOOLEAN :
       /\ targetFrameRate = detectOptimalFrameRate(isMobile, FALSE)
       /\ listeners = AppListeners
                      \cup (IF isMobile THEN {"deviceorientation"} ELSE {})
  /\ animationId = 1
  /\ rafPending = {1}
  /\ rafTimers = {}
  /\ mouseThrottler = NewThrottler
  /\ orientationThrottler = NewThrottler
  /\ docHidden = FALSE
  /\ destroyed = FALSE
  /\ events = 0
  /\ skippedRun = 0
  /\ last = Did("init", <<>>)

Init ==
  /\ EngineInit
  /\ thr = Idle /\ simple = Idle /\ vis = Idle /\ PageIdle
  /\ calc = NoCalc
  /\ dom = Idle
  /\ mon = Idle
  /\ sensors = Idle

(***************************************************************************)
(* Actions: one per callback the browser can run                           *)
(***************************************************************************)
schedVars == <<animationId, rafPending, rafTimers>>
appVars == <<isVisible, isActive, frameSkipCounter, targetFrameRate, skippedRun>>
throttlers == <<mouseThrottler, orientationThrottler>>

\* requestAnimationFrame returns an id no pending callback has and that
\* differs from the id the app still holds; ids are only ever compared for
\* equality (cancelAnimationFrame), so the model reuses the smallest such id
requestId(pending, held) ==
  CHOOSE n \in 1 .. (Cardinality(pending) + 2) : n \notin pending \cup {held}

\* the end of the animate callback (script.js:2008-2017): the callbacks
\* pending once a computed frame that left pending has scheduled the next
\* one, with a timer instead of a request and the request made as well
scheduleNextFrameFallingThrough(pending, timers, newId, frameTime, targetFrameTime, perfNow) ==
  IF frameTime > (targetFrameTime * 15) \div 10
  THEN [rafPending |-> pending \cup {newId},
        rafTimers |-> timers \cup
                        {perfNow + (rescheduleDelay(targetFrameTime, frameTime) \div 100)}]
  ELSE [rafPending |-> pending \cup {newId}, rafTimers |-> timers]

\* the end of the animate callback (script.js:2008-2017): the callbacks
\* pending once a computed frame that left pending has scheduled the next
\* one, by setTimeout if the frame was over budget, else by
\* requestAnimationFrame
scheduleNextFrame(pending, timers, newId, frameTime, targetFrameTime, perfNow) ==
  IF frameTime > (targetFrameTime * 15) \div 10
  THEN [rafPending |-> pending,
        rafTimers |-> timers \cup
                        {perfNow + (rescheduleDelay(targetFrameTime, frameTime) \div 100)}]
  ELSE [rafPending |-> pending \cup {newId}, rafTimers |-> timers]

\* time passes between callbacks
Advance ==
  \E d \in ClockSteps :
    /\ clock + d <= MaxClock
    /\ clock' = clock + d
    /\ last' = Did("advance", <<>>)
    /\ UNCHANGED <<state, letterData, pm, lastActivityTime, appVars, schedVars,
                   throttlers, docHidden, listeners, destroyed, events, otherVars>>

\* the animate callback of startAnimation, script.js:1983-2018
Animate ==
  \E id \in rafPending, cost \in FrameCosts :
  \E go \in {shouldAnimate(isVisible, isActive, DateNow, lastActivityTime,
                           frameSkipCounter)} :
  \E newId \in {requestId(rafPending \ {id}, animationId)} :
    /\ frameSkipCounter' = go.frameSkipCounter
    /\ IF ~go.result
       THEN /\ pm' = startFrame(pm, clock)
            /\ animationId' = newId
            /\ rafPending' = (rafPending \ {id}) \cup {newId}
            /\ skippedRun' = IF isVisible /\ isActive THEN skippedRun + 1 ELSE 0
            /\ last' = [Did("animate", <<>>) EXCEPT !.skipped = skippedRun]
            /\ UNCHANGED <<clock, state, letterData, rafTimers>>
       ELSE /\ pm.frameCount < MaxFrames
            /\ clock + cost <= MaxClock
            /\ \E f \in {animateFrame(state, letterData, startFrame(pm, clock), clock,
                                      DateNow, cost)} :
               \E frameTime \in {getAverageFrameTime(f.pm)},
                  targetFrameTime \in {FP(1000) \div targetFrameRate} :
                 /\ clock' = clock + cost
                 /\ state' = f.state
                 /\ letterData' = f.letterData
                 /\ pm' = f.pm
                 /\ skippedRun' = 0
                 /\ \E nx \in {scheduleNextFrame(rafPending \ {id}, rafTimers, newId,
                                                  frameTime, targetFrameTime, clock + cost)} :
                      /\ rafPending' = nx.rafPending
                      /\ rafTimers' = nx.rafTimers
                 /\ IF frameTime > (targetFrameTime * 15) \div 10
                    THEN /\ UNCHANGED animationId
                         /\ last' = [op |-> "animate", computed |-> TRUE, ops |-> f.ops,
                                     sched |-> "timeout",
                                     delay |-> rescheduleDelay(targetFrameTime, frameTime),
                                     frameTime |-> frameTime,
                                     targetFrameTime |-> targetFrameTime,
                                     skipped |-> skippedRun]
                    ELSE /\ animationId' = newId
                         /\ last' = [op |-> "animate", computed |-> TRUE, ops |-> f.ops,
                                     sched |-> "raf", delay |-> 0,
                                     frameTime |-> frameTime,
                                     targetFrameTime |-> targetFrameTime,
                                     skipped |-> skippedRun]
    /\ UNCHANGED <<lastActivityTime, isVisible, isActive, targetFrameRate, throttlers,
                   docHidden, listeners, destroyed, events, otherVars>>

\* the setTimeout callback of script.js:2012-2014
RescheduleTimer ==
  \E due \in rafTimers :
    /\ due <= clock
    /\ rafTimers' = rafTimers \ {due}
    /\ animationId' = requestId(rafPending, animationId)
    /\ rafPending' = rafPending \cup {animationId'}
    /\ last' = Did("rescheduleTimer", <<>>)
    /\ UNCHANGED <<clock, state, letterData, pm, lastActivityTime, appVars, throttlers,
                   docHidden, listeners, destroyed, events, otherVars>>

\* an input event is delivered to a listener that is still registered
Input(type) ==
  /\ type \in listeners
  /\ events < MaxEvents
  /\ events' = events + 1

\* mousemove, through mouseThrottler (script.js:1731-1732)
MouseMove ==
  \E e \in PointerPositions :
  \E r \in {throttle(mouseThrottler, THROTTLE_MOUSE, clock, e)} :
    /\ Input("mousemove")
    /\ mouseThrottler' = r.t
    /\ IF r.call
       THEN \E h \in {handleMouseMove(e, state, letterData, DateNow, pm.qualityLevel)} :
              /\ state' = h.state
              /\ letterData' = h.letterData
              /\ lastActivityTime' = h.lastActivityTime
              /\ last' = Did("mousemove", h.ops)
       ELSE /\ last' = Did("mousemove", <<>>)
            /\ UNCHANGED <<state, letterData, lastActivityTime>>
    /\ UNCHANGED <<clock, pm, appVars, schedVars, orientationThrottler, docHidden,
                   listeners, destroyed, otherVars>>

\* the trailing timer of mouseThrottler (script.js:902-905)
MouseTimer ==
  /\ mouseThrottler.timer.live
  /\ mouseThrottler.timer.due <= clock
  /\ mouseThrottler' = timerFired(mouseThrottler, clock)
  /\ \E h \in {handleMouseMove(mouseThrottler.timer.args, state, letterData, DateNow,
                               pm.qualityLevel)} :
       /\ state' = h.state
       /\ letterData' = h.letterData
       /\ lastActivityTime' = h.lastActivityTime
       /\ last' = Did("mouseTimer", h.ops)
  /\ UNCHANGED <<clock, pm, appVars, schedVars, orientationThrottler, docHidden,
                 listeners, destroyed, events, otherVars>>

\* click (script.js:1735-1738)
Click ==
  /\ Input("click")
  /\ state' = handleClick(state, FP(1))
  /\ lastActivityTime' = DateNow
  /\ last' = Did("click", <<>>)
  /\ UNCHANGED <<clock, letterData, pm, appVars, schedVars, throttlers, docHidden,
                 listeners, destroyed, otherVars>>

KeyDown ==
  /\ Input("keydown")
  /\ state' = handleKeyDown(state, DateNow)
  /\ last' = Did("keydown", <<>>)
  /\ UNCHANGED <<clock, letterData, pm, lastActivityTime, appVars, schedVars, throttlers,
                 docHidden, listeners, destroyed, otherVars>>

TouchStart ==
  /\ Input("touchstart")
  /\ state' = handleTouchStart(state, DateNow)
  /\ last' = Did("touchstart", <<>>)
  /\ UNCHANGED <<clock, letterData, pm, lastActivityTime, appVars, schedVars, throttlers,
                 docHidden, listeners, destroyed, otherVars>>

\* deviceorientation, through orientationThrottler (script.js:1387, 1409)
Orientation ==
  \E e \in OrientationReadings :
  \E r \in {throttle(orientationThrottler, THROTTLE_ORIENTATION, clock, e)} :
    /\ Input("deviceorientation")
    /\ orientationThrottler' = r.t
    /\ IF r.call
       THEN /\ state' = handleOrientation(state, e)
            /\ last' = Did("deviceorientation", <<"orientation">>)
       ELSE /\ last' = Did("deviceorientation", <<>>)
            /\ UNCHANGED state
    /\ UNCHANGED <<clock, letterData, pm, lastActivityTime, appVars, schedVars,
                   mouseThrottler, docHidden, listeners, destroyed, otherVars>>

\* the trailing timer of orientationThrottler
OrientationTimer ==
  /\ orientationThrottler.timer.live
  /\ orientationThrottler.timer.due <= clock
  /\ orientationThrottler' = timerFired(orientationThrottler, clock)
  /\ state' = handleOrientation(state, orientationThrottler.timer.args)
  /\ last' = Did("orientationTimer", <<"orientation">>)
  /\ UNCHANGED <<clock, letterData, pm, lastActivityTime, appVars, schedVars,
                 mouseThrottler, docHidden, listeners, destroyed, events, otherVars>>

\* the page is hidden or shown: handleVisibilityChange (script.js:1761-1764)
handleVisibilityChange ==
  /\ docHidden' = ~docHidden
  /\ isVisible' = ~docHidden'
  /\ lastActivityTime' = DateNow
  /\ skippedRun' = 0
  /\ last' = Did("visibilitychange", <<>>)
  /\ UNCHANGED <<clock, state, letterData, pm, isActive, frameSkipCounter,
                 targetFrameRate, schedVars, throttlers, listeners, destroyed>>

\* handleWindowFocus (script.js:1766-1769)
handleWindowFocus ==
  /\ isActive' = TRUE
  /\ lastActivityTime' = DateNow
  /\ last' = Did("focus", <<>>)
  /\ UNCHANGED <<clock, state, letterData, pm, isVisible, frameSkipCounter,
                 targetFrameRate, skippedRun, schedVars, throttlers, docHidden,
                 listeners, destroyed>>

\* handleWindowBlur (script.js:1771-1773)
handleWindowBlur ==
  /\ isActive' = FALSE
  /\ skippedRun' = 0
  /\ last' = Did("blur", <<>>)
  /\ UNCHANGED <<clock, state, letterData, pm, isVisible, lastActivityTime,
                 frameSkipCounter, targetFrameRate, schedVars, throttlers, docHidden,
                 listeners, destroyed>>

VisibilityChange ==
  /\ Input("visibilitychange")
  /\ handleVisibilityChange
  /\ UNCHANGED otherVars

Focus ==
  /\ Input("focus")
  /\ handleWindowFocus
  /\ UNCHANGED otherVars

Blur ==
  /\ Input("blur")
  /\ handleWindowBlur
  /\ UNCHANGED otherVars

\* destroy() (script.js:2050-2070), called from beforeunload (script.js:2331)
Destroy ==
  /\ ~destroyed
  /\ events < MaxEvents
  /\ events' = events + 1
  /\ destroyed' = TRUE
  /\ rafPending' = IF animationId # Null THEN rafPending \ {animationId} ELSE rafPending
  /\ mouseThrottler' = clearPending(mouseThrottler)
  /\ last' = Did("destroy", <<>>)
  /\ UNCHANGED <<clock, state, letterData, pm, lastActivityTime, appVars, animationId,
                 rafTimers, orientationThrottler, docHidden, listeners, otherVars>>

Next ==
  \/ Advance
  \/ Animate
  \/ RescheduleTimer
  \/ MouseMove
  \/ MouseTimer
  \/ Click
  \/ KeyDown
  \/ TouchStart
  \/ Orientation
  \/ OrientationTimer
  \/ VisibilityChange
  \/ Focus
  \/ Blur
  \/ Destroy

Spec == Init /\ [][Next]_vars

(***************************************************************************)
(* The Effect Calculator and the three writers of letter styles on their   *)
(* own: SpecCalc draws an InteractiveState, a pointer event, a time and a  *)
(* quality level, and applies one of the functions to it.                  *)
(***************************************************************************)
\* clickEffect: none, and just clicked
CalcClicks == {0, 100}
\* <<effect, speed, count>> of the keyboard and of the tap impulse: none,
\* and the second of two events in the same millisecond
CalcBursts == {<<0, 0, 0>>, <<300, Infinity, 200>>}
\* <<verticalTilt, horizontalTilt>>: flat and upright, and fully tilted
CalcTilts == {<<0, 0>>, <<100, 100>>}
\* <<lastMouseX, lastMouseY, mouseVelocity, mouseActive>>: never moved, moved
\* onto letter 0 from the origin, and from far away
CalcMice == {<<0, 0, 0, FALSE>>, <<100, 100, 14140, TRUE>>, <<100, 100, 410120, TRUE>>}
\* pointer events, px: on letter 0; 399, 400 (twice) and 401 px from the
\* centre of letter 0; far from every letter
CalcPointers == {<<100, 100>>, <<499, 100>>, <<500, 100>>, <<340, 420>>, <<501, 100>>,
                 <<3000, 3000>>}
\* seconds in hundredths
CalcTimes == {0, 52, 157}
\* quality levels: the floor, either side of the 0.5 / 0.6 / 0.7 switches,
\* and full quality
CalcQualities == {30, 55, 65, 100}

CalcInputs ==
  {[s |-> [InitialState EXCEPT !.clickEffect = c,
                               !.keyboardEffect = k[1], !.typingSpeed = k[2],
                               !.maxTypingSpeed = k[2], !.keyCount = k[3],
                               !.lastKeyTime = IF k[3] > 0 THEN EpochOffset ELSE 0,
                               !.tapEffect = t[1], !.tapSpeed = t[2], !.tapCount = t[3],
                               !.lastTapTime = IF t[3] > 0 THEN EpochOffset ELSE 0,
                               !.verticalTilt = o[1], !.horizontalTilt = o[2],
                               !.orientationEffect = (o[1] + o[2]) \div 2,
                               !.lastMouseX = m[1], !.lastMouseY = m[2],
                               !.mouseVelocity = m[3], !.mouseActive = m[4]],
    e |-> e, time |-> time, qualityLevel |-> q] :
     c \in CalcClicks, k \in CalcBursts, t \in CalcBursts, o \in CalcTilts,
     m \in CalcMice, e \in CalcPointers, time \in CalcTimes, q \in CalcQualities}

\* deviceorientation readings <<beta, gamma>>, degrees: valid ones, and
\* every way for an axis to be missing (null), not a number or out of range
CalcReadings == {<<120, -60>>, <<90, 0>>, <<Null, Null>>, <<Null, 30>>, <<45, Null>>,
                 <<NaN, NaN>>, <<200, 30>>, <<45, 400>>, <<-20, -200>>}

\* the squared distance, px^2, from a pointer event to the centre of letter i
DistSquared(e, i) ==
  (e[1] - getRect(i).centerX) * (e[1] - getRect(i).centerX)
  + (e[2] - getRect(i).centerY) * (e[2] - getRect(i).centerY)

InitCalc ==
  /\ EngineInit
  /\ thr = Idle /\ simple = Idle /\ vis = Idle /\ PageIdle
  /\ listeners = AppListeners
  /\ calc \in {[op |-> "input", in |-> i, letter |-> 0, effect |-> ZeroEffect,
                letterData |-> precalculateLetterData,
                applied |-> <<>>] : i \in CalcInputs}
  /\ dom = Idle
  /\ mon = Idle
  /\ sensors = Idle

\* EffectCalculator.calculateMouseEffects for the pointer event and letter i
CalcMouseEffects ==
  \E i \in Letters :
    /\ calc.op = "input"
    /\ calc' = [calc EXCEPT
                  !.op = "calculateMouseEffects",
                  !.letter = i,
                  !.effect = calculateMouseEffects(calc.in.e[1], calc.in.e[2], getRect(i), i,
                                                   calc.in.time, calc.in.s,
                                                   calc.in.qualityLevel)]
    /\ UNCHANGED <<engineVars, dom, mon, sensors, thr, simple, vis, pageVars>>

\* EffectCalculator.calculateBaselineEffects for letter i
CalcBaselineEffects ==
  \E i \in Letters :
    /\ calc.op = "input"
    /\ calc' = [calc EXCEPT
                  !.op = "calculateBaselineEffects",
                  !.letter = i,
                  !.effect = calculateBaselineEffects(i, calc.in.time, calc.in.s,
                                                      calc.in.qualityLevel)]
    /\ UNCHANGED <<engineVars, dom, mon, sensors, thr, simple, vis, pageVars>>

\* updateLetters over freshly built letter data
CalcUpdateLetters ==
  /\ calc.op = "input"
  /\ calc' = [calc EXCEPT
                !.op = "updateLetters",
                !.letterData = updateLetters(calc.letterData, calc.in.time, calc.in.s,
                                             calc.in.qualityLevel).letterData]
  /\ UNCHANGED <<engineVars, dom, mon, sensors, thr, simple, vis, pageVars>>

\* handleMouseMove for the pointer event
CalcMouseMove ==
  /\ calc.op = "input"
  /\ calc' = [calc EXCEPT
                !.op = "handleMouseMove",
                !.letterData = handleMouseMove(calc.in.e, calc.in.s, calc.letterData,
                                               calc.in.time * 10,
                                               calc.in.qualityLevel).letterData]
  /\ UNCHANGED <<engineVars, dom, mon, sensors, thr, simple, vis, pageVars>>

\* updateFixedLetter for letter i
CalcFixedLetter ==
  \E i \in Letters :
    /\ calc.op = "input"
    /\ calc.letterData[i].isFixed
    /\ calc' = [calc EXCEPT
                  !.op = "updateFixedLetter",
                  !.letter = i,
                  !.letterData[i] = updateFixedLetter(calc.letterData[i])]
    /\ UNCHANGED <<engineVars, dom, mon, sensors, thr, simple, vis, pageVars>>

\* one call of updateLetterStyles: the letter afterwards, the values asked
\* for, what the letter remembered before, and the style properties assigned
Apply(ld, weight, distortion, color) ==
  [ld |-> updateLetterStyles(ld, weight, distortion, color),
   weight |-> weight, distortion |-> distortion,
   lastWeight |-> ld.lastWeight, lastDistortion |-> ld.lastDistortion,
   writes |-> styleWrites(ld, weight, distortion, color)]

\* updateLetterStyles twice in a row for letter i, on a letter that is
\* fresh or that a mousemove has already drawn, with the baseline values for
\* a fixed letter and for one out of the pointer's range, and with the
\* pointer's effect at its last position otherwise
CalcApplyTwice ==
  /\ calc.op = "input"
  /\ \E i \in Letters, moved \in BOOLEAN :
     \E ld0 \in {IF moved
                  THEN handleMouseMove(calc.in.e, calc.in.s, calc.letterData,
                                       calc.in.time * 10, calc.in.qualityLevel).letterData[i]
                  ELSE calc.letterData[i]},
        near \in {calculateMouseEffects(calc.in.s.lastMouseX, calc.in.s.lastMouseY,
                                        getRect(i), i, calc.in.time, calc.in.s,
                                        calc.in.qualityLevel)} :
     \E want \in {IF ld0.isFixed \/ near = ZeroEffect
                   THEN [weight |-> FP(WEIGHT_BASELINE),
                         distortion |-> FP(DISTORTION_BASELINE)]
                   ELSE near},
        color \in {IF ld0.isFixed THEN "#FFFFFF" ELSE "null"} :
     \E first \in {Apply(ld0, want.weight, want.distortion, color)} :
       calc' = [calc EXCEPT
                  !.op = "updateLetterStyles",
                  !.letter = i,
                  !.applied = <<first,
                                Apply(first.ld, want.weight, want.distortion, color)>>]
  /\ UNCHANGED <<engineVars, dom, mon, sensors, thr, simple, vis, pageVars>>

\* the deviceorientation handler on one reading
CalcOrientation ==
  /\ calc.op = "input"
  /\ \E e \in CalcReadings :
       calc' = [calc EXCEPT
                  !.op = "deviceorientation",
                  !.applied = <<[e |-> e, s |-> handleOrientation(calc.in.s, e)]>>]
  /\ UNCHANGED <<engineVars, dom, mon, sensors, thr, simple, vis, pageVars>>

NextCalc ==
  \/ CalcApplyTwice
  \/ CalcOrientation
  \/ CalcMouseEffects
  \/ CalcBaselineEffects
  \/ CalcUpdateLetters
  \/ CalcMouseMove
  \/ CalcFixedLetter

SpecCalc == InitCalc /\ [][NextCalc]_vars

(***************************************************************************)
(* The geometry cache on its own: the application's DOMCache under the     *)
(* calls the engine makes on it (the letter loops of handleMouseMove and   *)
(* updateLetters, the description loop of checkScrollReveal, clear() in    *)
(* destroy()), the passing of time and viewport resizes.  The elements are *)
(* numbered: the movable letters first, then the descriptions.             *)
(***************************************************************************)
NumDescriptions == 50
MaxCacheClock == 250
MaxResizes == 1
MaxLoops == 3

CacheLetters == 0 .. (NumLetters - FIXED_LETTERS - 1)
CacheDescriptions ==
  (NumLetters - FIXED_LETTERS) .. (NumLetters - FIXED_LETTERS + NumDescriptions - 1)
CacheElements == CacheLetters \cup CacheDescriptions
CacheSteps == {50}

RECURSIVE Interval(_, _)
Interval(a, b) == IF a > b THEN <<>> ELSE <<a>> \o Interval(a + 1, b)

\* one getRect(el) of a loop: the cache is updated and the call is recorded
\* together with what was known of el before it (measuredAt: when el was
\* last measured; called: when getRect(el) was last called and what it
\* returned, both forgotten by clear(); resized: whether the viewport was
\* resized since the last getRect(el))
getRectCall(d, el) ==
  LET r == domGetRect(d.c, el, d.now, d.layout)
      call == [el |-> el, at |-> d.now, rect |-> r.rect, measured |-> r.measured,
               values |-> r.c.rects[r.rect],
               measuredAt |-> d.measuredAt[el],
               calledAt |-> d.called[el].at,
               prevRect |-> d.called[el].rect,
               prevValues |-> d.called[el].values,
               resized |-> d.resized[el]]
  IN [d EXCEPT !.c = r.c,
               !.calls = Append(@, call),
               !.measuredAt[el] = IF r.measured THEN d.now ELSE @,
               !.called[el] = [at |-> d.now, rect |-> r.rect, values |-> call.values],
               !.resized[el] = FALSE]

RECURSIVE getRectLoop(_, _, _)
getRectLoop(d, els, n) ==
  IF n > Len(els) THEN d ELSE getRectLoop(getRectCall(d, els[n]), els, n + 1)

NeverCalled == [at |-> Null, rect |-> Null, values |-> Null]

InitCache ==
  /\ EngineInit /\ listeners = AppListeners
  /\ thr = Idle /\ simple = Idle /\ vis = Idle /\ PageIdle
  /\ calc = NoCalc /\ mon = Idle /\ sensors = Idle
  /\ dom = [op |-> "new", now |-> 0, layout |-> 0,
            resized |-> [el \in CacheElements |-> FALSE],
            gridTimers |-> 0, grids |-> 1, loops |-> 0, destroyed |-> FALSE,
            c |-> NewDOMCache, calls |-> <<>>,
            measuredAt |-> [el \in CacheElements |-> Null],
            called |-> [el \in CacheElements |-> NeverCalled]]

\* time passes
CacheAdvance ==
  \E step \in CacheSteps :
    /\ dom.now + step <= MaxCacheClock
    /\ dom' = [dom EXCEPT !.op = "advance", !.now = @ + step, !.calls = <<>>]
    /\ UNCHANGED <<engineVars, calc, mon, sensors, thr, simple, vis, pageVars>>

\* the letter loop of handleMouseMove or of updateLetters
CacheLetterRects ==
  /\ dom.loops < MaxLoops
  /\ dom' = getRectLoop([dom EXCEPT !.op = "getRect", !.calls = <<>>, !.loops = @ + 1],
                        Interval(0, NumLetters - FIXED_LETTERS - 1), 1)
  /\ UNCHANGED <<engineVars, calc, mon, sensors, thr, simple, vis, pageVars>>

\* the description loop of checkScrollReveal, no description revealed yet
CacheDescriptionRects ==
  /\ dom.loops < MaxLoops
  /\ dom' = getRectLoop([dom EXCEPT !.op = "getRect", !.calls = <<>>, !.loops = @ + 1],
                        Interval(NumLetters - FIXED_LETTERS,
                                 NumLetters - FIXED_LETTERS + NumDescriptions - 1), 1)
  /\ UNCHANGED <<engineVars, calc, mon, sensors, thr, simple, vis, pageVars>>

\* a resize event: the viewport changes, every element moves, and the glass
\* grid's listener arms a timer that will rebuild the panes
CacheResize ==
  /\ dom.layout < MaxResizes
  /\ dom' = [dom EXCEPT !.op = "resize", !.layout = @ + 1,
                        !.resized = [el \in CacheElements |-> TRUE],
                        !.gridTimers = @ + 1, !.calls = <<>>]
  /\ UNCHANGED <<engineVars, calc, mon, sensors, thr, simple, vis, pageVars>>

\* one of the armed timers fires: createOptimizedGrid()
CacheGridTimer ==
  /\ dom.gridTimers > 0
  /\ dom' = [dom EXCEPT !.op = "createOptimizedGrid", !.gridTimers = @ - 1,
                        !.grids = @ + 1, !.calls = <<>>]
  /\ UNCHANGED <<engineVars, calc, mon, sensors, thr, simple, vis, pageVars>>

\* destroy(), once, on beforeunload: this.domCache.clear()
CacheClear ==
  /\ ~dom.destroyed
  /\ dom' = [dom EXCEPT !.op = "clear", !.c = domClear(@), !.calls = <<>>,
                        !.destroyed = TRUE,
                        !.measuredAt = [el \in CacheElements |-> Null],
                        !.called = [el \in CacheElements |-> NeverCalled]]
  /\ UNCHANGED <<engineVars, calc, mon, sensors, thr, simple, vis, pageVars>>

NextCache ==
  \/ CacheAdvance
  \/ CacheLetterRects
  \/ CacheDescriptionRects
  \/ CacheResize
  \/ CacheGridTimer
  \/ CacheClear

SpecCache == InitCache /\ [][NextCache]_vars

(***************************************************************************)
(* The PerformanceMonitor on its own, over runs long enough for the        *)
(* adaptive quality to travel its whole range: every frame is a startFrame *)
(* and an endFrame some milliseconds later.  The load changes at most      *)
(* MaxLoadChanges times in a run.  logged tells whether the frame's        *)
(* animate() wrote the performance line to the console, gap how many       *)
(* computed frames ended since the line before it (or since the start).    *)
(***************************************************************************)
MaxMonitorFrames == 175
MaxLoadChanges == 1

\* the cost of a frame, ms
MonitorCosts == {0, 900}

\* animate(): "Log performance every 60 frames", after endFrame()
logsPerformance(m) == m.frameCount % 60 = 0

InitMonitor ==
  /\ EngineInit /\ listeners = AppListeners
  /\ thr = Idle /\ simple = Idle /\ vis = Idle /\ PageIdle
  /\ calc = NoCalc /\ dom = Idle /\ sensors = Idle
  /\ mon = [op |-> "new", m |-> InitialMonitor, now |-> 0, frames |-> 0,
            cost |-> Null, changes |-> 0, before |-> InitialMonitor.qualityLevel,
            logged |-> FALSE, gap |-> 0]

MonitorStartFrame ==
  /\ mon.op # "startFrame"
  /\ mon.frames < MaxMonitorFrames
  /\ mon' = [mon EXCEPT !.op = "startFrame", !.m = startFrame(@, mon.now)]
  /\ UNCHANGED <<engineVars, calc, dom, sensors, thr, simple, vis, pageVars>>

MonitorEndFrame ==
  /\ mon.op = "startFrame"
  /\ \E cost \in MonitorCosts :
       /\ cost = mon.cost \/ mon.cost = Null \/ mon.changes < MaxLoadChanges
       /\ \E m \in {endFrame(mon.m, mon.now + cost)} :
          mon' = [mon EXCEPT !.op = "endFrame",
                             !.m = m,
                             !.logged = logsPerformance(m),
                             !.gap = IF mon.logged THEN 1 ELSE @ + 1,
                             !.now = @ + cost,
                             !.frames = @ + 1,
                             !.cost = cost,
                             !.changes = IF cost = mon.cost \/ mon.cost = Null
                                         THEN @ ELSE @ + 1,
                             !.before = mon.m.qualityLevel]
  /\ UNCHANGED <<engineVars, calc, dom, sensors, thr, simple, vis, pageVars>>

NextMonitor ==
  \/ MonitorStartFrame
  \/ MonitorEndFrame

SpecMonitor == InitMonitor /\ [][NextMonitor]_vars

(***************************************************************************)
(* The permission flow over several page loads of one browser: the store   *)
(* outlives the page, the MobileSensorManager does not.  decision is the   *)
(* last decision of the user that reached the store.                       *)
(***************************************************************************)
MaxLoads == 3

Platforms == {"desktop", "android", "ios"}
Permissions == {"granted", "denied", "error"}

InitSensors ==
  /\ EngineInit /\ listeners = AppListeners
  /\ thr = Idle /\ simple = Idle /\ vis = Idle /\ PageIdle
  /\ calc = NoCalc /\ dom = Idle /\ mon = Idle
  /\ \E platform \in Platforms :
       sensors = [op |-> "new", platform |-> platform, store |-> "null",
                  m |-> NewSensorManager, fails |-> FALSE, threw |-> FALSE,
                  decision |-> "none", decisionBefore |-> "none", loads |-> 1]

\* setupMobileSensors(): this.mobileSensors.initialize()
SensorsInitialize ==
  \E fails \in BOOLEAN :
  \E r \in {initialize(sensors.m, sensors.platform, sensors.store, fails)} :
    /\ sensors.op \in {"new", "load"}
    /\ sensors' = [sensors EXCEPT !.op = "initialize", !.m = r.m, !.threw = r.threw,
                                  !.fails = fails /\ sensors.platform = "ios",
                                  !.decisionBefore = sensors.decision]
    /\ UNCHANGED <<engineVars, calc, dom, mon, thr, simple, vis, pageVars>>

SensorsPermissionClick ==
  \E fails \in BOOLEAN, permission \in Permissions :
  \E r \in {permissionClick(sensors.m, sensors.store, permission, fails)} :
    /\ sensors.m.permissionContainer
    /\ sensors' = [sensors EXCEPT !.op = "permissionClick", !.m = r.m, !.threw = r.threw,
                                  !.store = r.store, !.fails = fails,
                                  !.decisionBefore = sensors.decision,
                                  !.decision = IF fails THEN @
                                               ELSE IF permission = "granted"
                                                    THEN "granted" ELSE "denied"]
    /\ UNCHANGED <<engineVars, calc, dom, mon, thr, simple, vis, pageVars>>

SensorsDismissClick ==
  \E fails \in BOOLEAN :
  \E r \in {dismissClick(sensors.m, sensors.store, fails)} :
    /\ sensors.m.permissionContainer
    /\ sensors' = [sensors EXCEPT !.op = "dismissClick", !.m = r.m, !.threw = r.threw,
                                  !.store = r.store, !.fails = fails,
                                  !.decisionBefore = sensors.decision,
                                  !.decision = IF fails THEN @ ELSE "dismissed"]
    /\ UNCHANGED <<engineVars, calc, dom, mon, thr, simple, vis, pageVars>>

\* clearStoredPermission(), which nothing in the page calls
SensorsClearStored ==
  \E fails \in BOOLEAN :
  \E r \in {clearStoredPermission(sensors.store, fails)} :
    /\ sensors.op # "clearStoredPermission"
    /\ sensors' = [sensors EXCEPT !.op = "clearStoredPermission", !.threw = r.threw,
                                  !.store = r.store, !.fails = fails,
                                  !.decisionBefore = sensors.decision,
                                  !.decision = IF fails THEN @ ELSE "none"]
    /\ UNCHANGED <<engineVars, calc, dom, mon, thr, simple, vis, pageVars>>

\* the page is loaded again: new MobileSensorManager(state)
SensorsLoad ==
  /\ sensors.op # "load"
  /\ sensors.loads < MaxLoads
  /\ sensors' = [sensors EXCEPT !.op = "load", !.m = NewSensorManager, !.loads = @ + 1,
                                !.fails = FALSE, !.threw = FALSE,
                                !.decisionBefore = sensors.decision]
  /\ UNCHANGED <<engineVars, calc, dom, mon, thr, simple, vis, pageVars>>

NextSensors ==
  \/ SensorsInitialize
  \/ SensorsPermissionClick
  \/ SensorsDismissClick
  \/ SensorsClearStored
  \/ SensorsLoad

SpecSensors == InitSensors /\ [][NextSensors]_vars

(***************************************************************************)
(* The click impulse over many frames, with amplitudes counted in          *)
(* millionths so that ten decays keep five significant digits: clicks,     *)
(* computed frames (updateDecay) and skipped frames (nothing), 16 ms       *)
(* apart.  ticks is the number of computed frames since the last click.    *)
(***************************************************************************)
Million == 1000000
MaxDecayFrames == 12
MaxDecayClicks == 2

InitDecay ==
  /\ EngineInit /\ listeners = AppListeners
  /\ thr = Idle /\ simple = Idle /\ vis = Idle /\ PageIdle
  /\ dom = Idle /\ mon = Idle /\ sensors = Idle
  /\ calc = [op |-> "new", s |-> InitialState, ticks |-> Null, frames |-> 0, clicks |-> 0]

DecayClick ==
  /\ calc.clicks < MaxDecayClicks
  /\ calc' = [calc EXCEPT !.op = "click", !.s = handleClick(@, Million), !.ticks = 0,
                          !.clicks = @ + 1]
  /\ UNCHANGED <<engineVars, dom, mon, sensors, thr, simple, vis, pageVars>>

\* a frame for which shouldAnimate() is true
DecayComputedFrame ==
  /\ calc.frames < MaxDecayFrames
  /\ calc' = [calc EXCEPT !.op = "frame",
                          !.s = updateDecay(@, EpochOffset + 16 * (calc.frames + 1)),
                          !.ticks = IF @ = Null THEN Null ELSE @ + 1,
                          !.frames = @ + 1]
  /\ UNCHANGED <<engineVars, dom, mon, sensors, thr, simple, vis, pageVars>>

\* a frame for which shouldAnimate() is false
DecaySkippedFrame ==
  /\ calc.frames < MaxDecayFrames
  /\ calc' = [calc EXCEPT !.op = "skip", !.frames = @ + 1]
  /\ UNCHANGED <<engineVars, dom, mon, sensors, thr, simple, vis, pageVars>>

NextDecay ==
  \/ DecayClick
  \/ DecayComputedFrame
  \/ DecaySkippedFrame

SpecDecay == InitDecay /\ [][NextDecay]_vars

(***************************************************************************)
(* One Throttler (the pointer's, THROTTLE.MOUSE) under bursts of events,   *)
(* on a 16 ms grid.  Events are numbered; a timer runs at its due time or  *)
(* later.  invoked and before are the last two calls of the throttled      *)
(* function, delivered the events it has been called with.                 *)
(***************************************************************************)
MaxThrottleClock == 160
MaxThrottleEvents == 3

ThrottleSteps == {16, 48}
NotInvoked == [at |-> Null, args |-> Null, eventAt |-> Null, late |-> 0, timer |-> FALSE]

InitThrottle ==
  /\ EngineInit /\ listeners = AppListeners
  /\ simple = Idle /\ vis = Idle /\ PageIdle
  /\ calc = NoCalc /\ dom = Idle /\ mon = Idle /\ sensors = Idle
  /\ thr = [op |-> "new", now |-> 0, t |-> NewTimedThrottler, events |-> 0,
            event |-> [at |-> Null, args |-> Null],
            invoked |-> NotInvoked, before |-> NotInvoked, delivered |-> {}]

ThrottleAdvance ==
  \E step \in ThrottleSteps :
    /\ thr.now + step <= MaxThrottleClock
    /\ thr' = [thr EXCEPT !.op = "advance", !.now = @ + step]
    /\ UNCHANGED <<engineVars, calc, dom, mon, sensors, simple, vis, pageVars>>

\* an event arrives: the wrapper is called with the event's number
ThrottleEvent ==
  \E r \in {throttleCall(thr.t, THROTTLE_MOUSE, thr.now, thr.events + 1)} :
    /\ thr.events < MaxThrottleEvents
    /\ thr.now + THROTTLE_MOUSE <= MaxThrottleClock
    /\ thr' = [thr EXCEPT
                 !.op = "event",
                 !.t = r.t,
                 !.events = @ + 1,
                 !.event = [at |-> thr.now, args |-> thr.events + 1],
                 !.before = IF r.call THEN thr.invoked ELSE @,
                 !.invoked = IF r.call
                             THEN [at |-> thr.now, args |-> thr.events + 1,
                                   eventAt |-> thr.now, late |-> 0, timer |-> FALSE]
                             ELSE @,
                 !.delivered = IF r.call THEN @ \cup {thr.events + 1} ELSE @]
    /\ UNCHANGED <<engineVars, calc, dom, mon, sensors, simple, vis, pageVars>>

\* a timer that is due runs
ThrottleTimerFires ==
  \E tm \in thr.t.timers :
    /\ tm.due <= thr.now
    /\ thr' = [thr EXCEPT
                 !.op = "timer",
                 !.t = throttleTimer(@, tm, thr.now),
                 !.before = thr.invoked,
                 !.invoked = [at |-> thr.now, args |-> tm.args, eventAt |-> tm.at,
                              late |-> thr.now - tm.due, timer |-> TRUE],
                 !.delivered = @ \cup {tm.args}]
    /\ UNCHANGED <<engineVars, calc, dom, mon, sensors, simple, vis, pageVars>>

NextThrottle ==
  \/ ThrottleAdvance
  \/ ThrottleEvent
  \/ ThrottleTimerFires

SpecThrottle == InitThrottle /\ [][NextThrottle]_vars

\* time passes and a due timer's callback is run by the event loop
FairSpecThrottle ==
  /\ SpecThrottle
  /\ WF_vars(ThrottleAdvance)
  /\ WF_vars(ThrottleTimerFires)

(***************************************************************************)
(* The simplified engine (the first script of script.js): its impulse      *)
(* globals clickEffect, keyboardEffect, isHovering, hoverIntensity, the    *)
(* handlers that set them and the decay at the head of animate.  Amplitudes*)
(* are in units of 1/SimpleOne; DECAY_RATE is in per cent and can be moved *)
(* by the effect-controls slider within [0.1, 0.99].                       *)
(***************************************************************************)
SimpleOne == 10000
SIMPLE_DECAY_RATE == 99
MaxSimpleSteps == 7
MaxSimpleClock == 2000

SimpleSteps == {400, 1600}
SliderRates == {10, SIMPLE_DECAY_RATE}

NewSimple ==
  [clickEffect |-> 0, keyboardEffect |-> 0, isHovering |-> FALSE, hoverIntensity |-> 0,
   lastTime |-> Null, DECAY_RATE |-> SIMPLE_DECAY_RATE]

simpleHandleClick(g) == [g EXCEPT !.clickEffect = SimpleOne]

\* handleKeyDown with the bursts added without Math.min
simpleHandleKeyDownUnclamped(g, dateNow) ==
  LET timeSinceLastKey == dateNow - (IF g.lastTime = Null THEN 0 ELSE g.lastTime)
  IN [g EXCEPT !.keyboardEffect = IF timeSinceLastKey < 500 THEN @ + (3 * SimpleOne) \div 10
                                  ELSE IF timeSinceLastKey < 2000 THEN @ + (15 * SimpleOne) \div 100
                                  ELSE (6 * SimpleOne) \div 10,
               !.lastTime = dateNow]

simpleHandleKeyDown(g, dateNow) ==
  LET timeSinceLastKey == dateNow - (IF g.lastTime = Null THEN 0 ELSE g.lastTime)
  IN [g EXCEPT !.keyboardEffect = IF timeSinceLastKey < 500
                                  THEN Min(SimpleOne, @ + (3 * SimpleOne) \div 10)
                                  ELSE IF timeSinceLastKey < 2000
                                  THEN Min(SimpleOne, @ + (15 * SimpleOne) \div 100)
                                  ELSE (6 * SimpleOne) \div 10,
               !.lastTime = dateNow]

simpleHandleMouseEnter(g) == [g EXCEPT !.isHovering = TRUE]
simpleHandleMouseLeave(g) == [g EXCEPT !.isHovering = FALSE]

\* the head of animate: decay of the impulses and the hover ramp
simpleAnimate(g) ==
  [g EXCEPT !.clickEffect = (@ * g.DECAY_RATE) \div 100,
            !.keyboardEffect = (@ * g.DECAY_RATE) \div 100,
            !.hoverIntensity = IF g.isHovering
                               THEN Min(SimpleOne, @ + (4 * SimpleOne) \div 10)
                               ELSE (@ * 6) \div 10]

\* the DECAY_RATE slider of createEffectControls
simpleSlider(g, rate) == [g EXCEPT !.DECAY_RATE = rate]

InitSimple ==
  /\ EngineInit /\ listeners = AppListeners
  /\ thr = Idle /\ vis = Idle /\ PageIdle
  /\ calc = NoCalc /\ dom = Idle /\ mon = Idle /\ sensors = Idle
  /\ simple = [op |-> "new", g |-> NewSimple, now |-> EpochOffset, steps |-> 0, raw |-> 0]

SimpleStep(op, g) ==
  /\ simple' = [simple EXCEPT !.op = op, !.g = g, !.steps = @ + 1,
                              !.raw = IF op = "keydown"
                                      THEN simpleHandleKeyDownUnclamped(simple.g, simple.now).keyboardEffect
                                      ELSE @]
  /\ UNCHANGED <<engineVars, calc, dom, mon, sensors, thr, vis, pageVars>>

SimpleAdvance ==
  \E step \in SimpleSteps :
    /\ simple.op # "none"
    /\ simple.now + step <= EpochOffset + MaxSimpleClock
    /\ simple' = [simple EXCEPT !.op = "advance", !.now = @ + step]
    /\ UNCHANGED <<engineVars, calc, dom, mon, sensors, thr, vis, pageVars>>

SimpleEnabled == simple.op # "none" /\ simple.steps < MaxSimpleSteps

SimpleClick ==
  /\ SimpleEnabled
  /\ SimpleStep("click", simpleHandleClick(simple.g))

SimpleKeyDown ==
  /\ SimpleEnabled
  /\ SimpleStep("keydown", simpleHandleKeyDown(simple.g, simple.now))

SimpleMouseEnter ==
  /\ SimpleEnabled
  /\ ~simple.g.isHovering
  /\ SimpleStep("mouseenter", simpleHandleMouseEnter(simple.g))

SimpleMouseLeave ==
  /\ SimpleEnabled
  /\ simple.g.isHovering
  /\ SimpleStep("mouseleave", simpleHandleMouseLeave(simple.g))

SimpleFrame ==
  /\ SimpleEnabled
  /\ SimpleStep("frame", simpleAnimate(simple.g))

SimpleSlider ==
  /\ SimpleEnabled
  /\ \E rate \in SliderRates \ {simple.g.DECAY_RATE} :
       SimpleStep("slider", simpleSlider(simple.g, rate))

NextSimple ==
  \/ SimpleAdvance
  \/ SimpleClick
  \/ SimpleKeyDown
  \/ SimpleMouseEnter
  \/ SimpleMouseLeave
  \/ SimpleFrame
  \/ SimpleSlider

SpecSimple == InitSimple /\ [][NextSimple]_vars

(***************************************************************************)
(* The scheduler under visibilitychange, focus and blur signals alone,     *)
(* with at most one click to give the frames something to draw: vis.seq    *)
(* is the sequence of signals received so far.                             *)
(***************************************************************************)
MaxSignals == 4

InitResume ==
  /\ EngineInit /\ listeners = AppListeners
  /\ thr = Idle /\ simple = Idle
  /\ calc = NoCalc /\ dom = Idle /\ mon = Idle /\ sensors = Idle
  /\ vis = [op |-> "new", seq |-> <<>>]
  /\ PageIdle

Signal(type, name) ==
  /\ vis.op # "none"
  /\ type \in listeners
  /\ Len(vis.seq) < MaxSignals
  /\ vis' = [vis EXCEPT !.op = type, !.seq = Append(@, name)]
  /\ UNCHANGED <<events, calc, dom, mon, sensors, thr, simple, pageVars>>

ResumeVisibilityChange ==
  /\ Signal("visibilitychange", IF docHidden THEN "visible" ELSE "hidden")
  /\ handleVisibilityChange

ResumeFocus ==
  /\ Signal("focus", "focus")
  /\ handleWindowFocus

ResumeBlur ==
  /\ Signal("blur", "blur")
  /\ handleWindowBlur

ResumeClick ==
  /\ events = 0
  /\ Click

NextResume ==
  \/ Advance
  \/ Animate
  \/ RescheduleTimer
  \/ ResumeClick
  \/ ResumeVisibilityChange
  \/ ResumeFocus
  \/ ResumeBlur

SpecResume == InitResume /\ [][NextResume]_vars

(***************************************************************************)
(* The permission button with requestPermission() as the asynchronous call *)
(* it is: a click starts a request, the rest of the click listener runs    *)
(* when the request settles.  inFlight counts the requests not yet         *)
(* settled, clicks the clicks so far.                                      *)
(***************************************************************************)
MaxPermissionClicks == 3

InitPermission ==
  /\ EngineInit /\ listeners = AppListeners
  /\ thr = Idle /\ simple = Idle /\ vis = Idle
  /\ calc = NoCalc /\ dom = Idle /\ mon = Idle /\ sensors = Idle
  /\ modal = Idle /\ form = Idle /\ spark = Idle /\ react = Idle /\ typing = Idle
  /\ \E platform \in Platforms, store \in {"null", "true", "false"} :
       perm = [op |-> "new", platform |-> platform, store |-> store,
               m |-> NewSensorManager, inFlight |-> 0, clicks |-> 0]

permVars == <<engineVars, calc, dom, mon, sensors, thr, simple, vis,
              modal, form, spark, react, typing>>

\* setupMobileSensors(): this.mobileSensors.initialize()
PermissionInitialize ==
  \E fails \in BOOLEAN :
  \E r \in {initialize(perm.m, perm.platform, perm.store, fails)} :
    /\ perm.op = "new"
    /\ perm' = [perm EXCEPT !.op = "initialize", !.m = r.m]
    /\ UNCHANGED permVars

\* a click on the permission button: up to await requestPermission()
PermissionClick ==
  /\ perm.op # "none"
  /\ perm.m.permissionContainer
  /\ perm.clicks < MaxPermissionClicks
  /\ perm' = [perm EXCEPT !.op = "click", !.inFlight = @ + 1, !.clicks = @ + 1]
  /\ UNCHANGED permVars

\* a request settles: the click listener from the await on
PermissionSettles ==
  \E fails \in BOOLEAN, permission \in Permissions :
  \E r \in {permissionClick(perm.m, perm.store, permission, fails)} :
    /\ perm.op # "none"
    /\ perm.inFlight > 0
    /\ perm' = [perm EXCEPT !.op = permission, !.inFlight = @ - 1, !.m = r.m,
                            !.store = r.store]
    /\ UNCHANGED permVars

PermissionDismiss ==
  \E fails \in BOOLEAN :
  \E r \in {dismissClick(perm.m, perm.store, fails)} :
    /\ perm.op # "none"
    /\ perm.m.permissionContainer
    /\ perm' = [perm EXCEPT !.op = "dismiss", !.m = r.m, !.store = r.store]
    /\ UNCHANGED permVars

NextPermission ==
  \/ PermissionInitialize
  \/ PermissionClick
  \/ PermissionSettles
  \/ PermissionDismiss

SpecPermission == InitPermission /\ [][NextPermission]_vars

(***************************************************************************)
(* ModalManager (script.js:912-1076) and what it writes on the page:       *)
(* active is the modal's 'active' class, overflow document.body.style      *)
(* .overflow, timers the setTimeout callbacks of handleScroll not yet run  *)
(* (each with the scrollDistance its closure holds), scrollTimeout the id  *)
(* held in the field, ticking the requestAnimationFrame of the scroll      *)
(* listener.  Times are ms, scroll positions px.                           *)
(***************************************************************************)
SCROLL_THRESHOLD == 50
SCROLL_DURATION == 500
SCROLL_TIMEOUT == 300

MaxModalClock == 600
MaxModalEvents == 5

ModalSteps == {100, 300}
ScrollPositions == {0, 30, 60, 120}

NewModalManager ==
  [isOpen |-> FALSE, active |-> FALSE, overflow |-> "", lastScrollY |-> 0,
   scrollStartY |-> 0, scrollStartTime |-> 0, scrollTimeout |-> Null,
   isScrolling |-> FALSE, ticking |-> FALSE, timers |-> {}, nextId |-> 1]

openModal(m, scrollY, dateNow) ==
  IF m.isOpen THEN m
  ELSE [m EXCEPT !.isOpen = TRUE, !.active = TRUE,
                 !.lastScrollY = scrollY, !.scrollStartY = scrollY,
                 !.scrollStartTime = dateNow, !.overflow = "hidden"]

\* closeModal leaving a pending scroll timeout alone
closeModalKeepingTimeout(m) ==
  IF ~m.isOpen THEN m
  ELSE [m EXCEPT !.isOpen = FALSE, !.active = FALSE, !.overflow = ""]

closeModal(m) ==
  IF ~m.isOpen THEN m
  ELSE [m EXCEPT !.isOpen = FALSE, !.active = FALSE,
                 !.timers = IF m.scrollTimeout # Null
                            THEN clearTimeout(@, m.scrollTimeout) ELSE @,
                 !.scrollTimeout = Null,
                 !.overflow = ""]

\* the floating button's click listener
modalToggle(m, scrollY, dateNow) ==
  IF m.isOpen THEN closeModal(m) ELSE openModal(m, scrollY, dateNow)

\* handleScroll of setupScrollDetection, with window.scrollY = scrollY
modalHandleScroll(m, scrollY, dateNow) ==
  IF ~m.isOpen THEN m
  ELSE
  LET scrollDelta == m.lastScrollY - scrollY
  IN
  IF scrollDelta > 0
  THEN LET cleared == IF m.scrollTimeout # Null
                      THEN clearTimeout(m.timers, m.scrollTimeout) ELSE m.timers
           m1 == IF ~m.isScrolling
                 THEN [m EXCEPT !.timers = cleared, !.scrollStartY = scrollY,
                                !.scrollStartTime = dateNow, !.isScrolling = TRUE]
                 ELSE [m EXCEPT !.timers = cleared]
           scrollDistance == m1.scrollStartY - scrollY
           scrollDuration == dateNow - m1.scrollStartTime
       IN IF scrollDistance >= SCROLL_THRESHOLD \/ scrollDuration >= SCROLL_DURATION
          THEN [closeModal(m1) EXCEPT !.isScrolling = FALSE, !.lastScrollY = scrollY]
          ELSE [m1 EXCEPT !.scrollTimeout = m1.nextId,
                          !.nextId = @ + 1,
                          !.timers = @ \cup {[id |-> m1.nextId,
                                              due |-> dateNow + SCROLL_TIMEOUT,
                                              scrollDistance |-> scrollDistance]},
                          !.lastScrollY = scrollY]
  ELSE [m EXCEPT !.isScrolling = FALSE,
                 !.timers = IF m.scrollTimeout # Null
                            THEN clearTimeout(@, m.scrollTimeout) ELSE @,
                 !.scrollTimeout = Null,
                 !.lastScrollY = scrollY]

\* the setTimeout callback of handleScroll
modalScrollTimeout(m, tm) ==
  LET m1 == [m EXCEPT !.timers = @ \ {tm}]
  IN [(IF m1.isOpen /\ 2 * tm.scrollDistance >= SCROLL_THRESHOLD
       THEN closeModal(m1) ELSE m1)
      EXCEPT !.isScrolling = FALSE]

InitModal ==
  /\ EngineInit /\ listeners = AppListeners
  /\ thr = Idle /\ simple = Idle /\ vis = Idle
  /\ calc = NoCalc /\ dom = Idle /\ mon = Idle /\ sensors = Idle
  /\ perm = Idle /\ form = Idle /\ spark = Idle /\ react = Idle /\ typing = Idle
  /\ modal = [op |-> "new", m |-> NewModalManager, scrollY |-> 0, now |-> 0,
              events |-> 0, pendingBefore |-> 0]

modalVars == <<engineVars, calc, dom, mon, sensors, thr, simple, vis,
               perm, form, spark, react, typing>>

ModalEvent == modal.op # "none" /\ modal.events < MaxModalEvents

ModalDid(op, m) ==
  [modal EXCEPT !.op = op, !.m = m, !.events = @ + 1,
                !.pendingBefore = Cardinality(modal.m.timers)]

ModalAdvance ==
  \E step \in ModalSteps :
    /\ modal.op # "none"
    /\ modal.now + step <= MaxModalClock
    /\ modal' = [modal EXCEPT !.op = "advance", !.now = @ + step]
    /\ UNCHANGED modalVars

ModalButtonClick ==
  /\ ModalEvent
  /\ modal' = ModalDid("button", modalToggle(modal.m, modal.scrollY, EpochOffset + modal.now))
  /\ UNCHANGED modalVars

\* a click on the overlay itself (e.target === this.modal)
ModalOverlayClick ==
  /\ ModalEvent
  /\ modal' = ModalDid("overlay", closeModal(modal.m))
  /\ UNCHANGED modalVars

ModalEscape ==
  /\ ModalEvent
  /\ modal' = ModalDid("escape", IF modal.m.isOpen THEN closeModal(modal.m) ELSE modal.m)
  /\ UNCHANGED modalVars

\* the window scrolls to y: throttledScroll
ModalScroll ==
  \E y \in ScrollPositions \ {modal.scrollY} :
    /\ ModalEvent
    /\ modal' = [ModalDid("scroll", [modal.m EXCEPT !.ticking = TRUE]) EXCEPT !.scrollY = y]
    /\ UNCHANGED modalVars

\* the requestAnimationFrame callback of throttledScroll
ModalScrollFrame ==
  /\ modal.op # "none"
  /\ modal.m.ticking
  /\ modal' = [modal EXCEPT
                 !.op = "handleScroll",
                 !.m = [modalHandleScroll(modal.m, modal.scrollY, EpochOffset + modal.now)
                        EXCEPT !.ticking = FALSE],
                 !.pendingBefore = Cardinality(modal.m.timers)]
  /\ UNCHANGED modalVars

ModalScrollTimeout ==
  \E tm \in modal.m.timers :
    /\ modal.op # "none"
    /\ tm.due <= EpochOffset + modal.now
    /\ modal' = [modal EXCEPT !.op = "scrollTimeout",
                              !.m = modalScrollTimeout(modal.m, tm),
                              !.pendingBefore = Cardinality(modal.m.timers)]
    /\ UNCHANGED modalVars

NextModal ==
  \/ ModalAdvance
  \/ ModalButtonClick
  \/ ModalOverlayClick
  \/ ModalEscape
  \/ ModalScroll
  \/ ModalScrollFrame
  \/ ModalScrollTimeout

SpecModal == InitModal /\ [][NextModal]_vars

(***************************************************************************)
(* handleFormSubmit of the simplified engine (script.js:464-529) on the    *)
(* signup form and the contact form.  Each form has its own submit button; *)
(* the page has one .submit-btn-mobile button, which every submission      *)
(* handles as well.  A submission in flight holds the originalTexts it     *)
(* read when it started; message is the last message shown.                *)
(***************************************************************************)
MaxSubmissions == 5

Forms == {"signup", "contact"}
Buttons == Forms \cup {"mobile"}
OriginalLabel == [b \in Buttons |-> IF b = "signup" THEN "Sign up"
                                   ELSE IF b = "contact" THEN "Send message" ELSE "Send"]

\* [button, mobileButton].filter(Boolean) of a submission of form f
ButtonsOf(f) == {f, "mobile"}

NewPage == [b \in Buttons |-> [innerHTML |-> OriginalLabel[b], disabled |-> FALSE]]

\* handleFormSubmit up to its first await: the submission and the buttons
formSubmitStart(buttons, f, n) ==
  [submission |-> [id |-> n, form |-> f,
                   originalTexts |-> [b \in ButtonsOf(f) |-> buttons[b].innerHTML]],
   buttons |-> [b \in Buttons |-> IF b \in ButtonsOf(f)
                                  THEN [innerHTML |-> "Sending...", disabled |-> TRUE]
                                  ELSE buttons[b]]]

\* the finally block of a submission
formSubmitFinally(buttons, sub) ==
  [b \in Buttons |-> IF b \in ButtonsOf(sub.form)
                     THEN [innerHTML |-> sub.originalTexts[b], disabled |-> FALSE]
                     ELSE buttons[b]]

InitForms ==
  /\ EngineInit /\ listeners = AppListeners
  /\ thr = Idle /\ simple = Idle /\ vis = Idle
  /\ calc = NoCalc /\ dom = Idle /\ mon = Idle /\ sensors = Idle
  /\ perm = Idle /\ modal = Idle /\ spark = Idle /\ react = Idle /\ typing = Idle
  /\ form = [op |-> "new", buttons |-> NewPage, inFlight |-> {}, started |-> 0,
             message |-> "none"]

formVars == <<engineVars, calc, dom, mon, sensors, thr, simple, vis,
              perm, modal, spark, react, typing>>

\* form f is submitted; its own submit button is not disabled
FormSubmit ==
  \E f \in Forms :
  \E r \in {formSubmitStart(form.buttons, f, form.started + 1)} :
    /\ form.op # "none"
    /\ form.started < MaxSubmissions
    /\ ~form.buttons[f].disabled
    /\ form' = [form EXCEPT !.op = "submit", !.buttons = r.buttons,
                            !.inFlight = @ \cup {r.submission}, !.started = @ + 1]
    /\ UNCHANGED formVars

\* a submission in flight ends: the response was ok, or it was not, or the
\* challenge or the request was rejected
FormCompletes ==
  \E sub \in form.inFlight, outcome \in {"success", "error"} :
    /\ form.op # "none"
    /\ form' = [form EXCEPT !.op = outcome,
                            !.buttons = formSubmitFinally(@, sub),
                            !.inFlight = @ \ {sub},
                            !.message = outcome]
    /\ UNCHANGED formVars

NextForms ==
  \/ FormSubmit
  \/ FormCompletes

SpecForms == InitForms /\ [][NextForms]_vars

(***************************************************************************)
(* handleFormSubmit of the optimized script (script.js:2143-2223) posting  *)
(* a form to Formspark.  fields are the form's field values, message the   *)
(* .form-message shown next to it, nativeSubmit the pending form.submit()  *)
(* of the fallback.  A response is "ok" (JSON body), "ok-no-json" (ok with *)
(* a body response.json() rejects), "http-error" (status not ok),          *)
(* "failed-to-fetch" or "network-error" (fetch rejected with that message),*)
(* or "aborted" (fetch rejected with another message).                     *)
(***************************************************************************)
MaxSparkSubmissions == 2

FieldNames == {"name", "email", "message"}
FieldValues == {"", "text"}
Responses == {"ok", "ok-no-json", "http-error", "failed-to-fetch", "network-error", "aborted"}
EmptyForm == [n \in FieldNames |-> ""]

\* showSuccessMessage: the message, and form.reset()
showSuccessMessage(f) == [f EXCEPT !.message = "success", !.fields = EmptyForm]

showErrorMessage(f) == [f EXCEPT !.message = "error"]

\* handleFormSubmit up to await fetch: the body holds the field values
sparkSubmitStart(f) ==
  [f EXCEPT !.button = [innerHTML |-> "Sending...", disabled |-> TRUE],
            !.inFlight = TRUE,
            !.originalText = f.button.innerHTML,
            !.posted = f.fields]

\* handleFormSubmit from the await on, for the given response
sparkSubmitEnd(f, response) ==
  LET shown == IF response \in {"ok", "ok-no-json"} THEN showSuccessMessage(f)
               ELSE IF response \in {"failed-to-fetch", "network-error"}
                    THEN [showSuccessMessage(f) EXCEPT !.nativeSubmit = TRUE]
                    ELSE showErrorMessage(f)
  IN [shown EXCEPT !.button = [innerHTML |-> f.originalText, disabled |-> FALSE],
                   !.inFlight = FALSE]

NewSparkForm ==
  [fields |-> EmptyForm, message |-> "none", inFlight |-> FALSE, nativeSubmit |-> FALSE,
   button |-> [innerHTML |-> "Send", disabled |-> FALSE], originalText |-> "Send",
   posted |-> EmptyForm]

InitFormspark ==
  /\ EngineInit /\ listeners = AppListeners
  /\ thr = Idle /\ simple = Idle /\ vis = Idle
  /\ calc = NoCalc /\ dom = Idle /\ mon = Idle /\ sensors = Idle
  /\ perm = Idle /\ modal = Idle /\ form = Idle /\ react = Idle /\ typing = Idle
  /\ spark = [op |-> "new", f |-> NewSparkForm, response |-> "none",
              before |-> EmptyForm, submissions |-> 0]

sparkVars == <<engineVars, calc, dom, mon, sensors, thr, simple, vis,
               perm, modal, form, react, typing>>

\* the user types into a field or empties it
SparkEdit ==
  \E n \in FieldNames, v \in FieldValues :
    /\ spark.op # "none"
    /\ spark.f.fields[n] # v
    /\ spark' = [spark EXCEPT !.op = "edit", !.f.fields[n] = v]
    /\ UNCHANGED sparkVars

SparkSubmit ==
  /\ spark.op # "none"
  /\ ~spark.f.inFlight
  /\ ~spark.f.button.disabled
  /\ spark.submissions < MaxSparkSubmissions
  /\ spark' = [spark EXCEPT !.op = "submit", !.f = sparkSubmitStart(@),
                            !.submissions = @ + 1]
  /\ UNCHANGED sparkVars

\* the fetch settles
SparkResponse ==
  \E response \in Responses :
    /\ spark.op # "none"
    /\ spark.f.inFlight
    /\ spark' = [spark EXCEPT !.op = "response", !.f = sparkSubmitEnd(@, response),
                              !.response = response, !.before = spark.f.fields]
    /\ UNCHANGED sparkVars

\* the fallback's setTimeout: form.submit()
SparkNativeSubmit ==
  /\ spark.op # "none"
  /\ spark.f.nativeSubmit
  /\ spark' = [spark EXCEPT !.op = "form.submit", !.f.nativeSubmit = FALSE,
                            !.f.posted = spark.f.fields]
  /\ UNCHANGED sparkVars

NextFormspark ==
  \/ SparkEdit
  \/ SparkSubmit
  \/ SparkResponse
  \/ SparkNativeSubmit

SpecFormspark == InitFormspark /\ [][NextFormspark]_vars

(***************************************************************************)
(* The React forms of src/main.tsx: ContactForm (status, message) and      *)
(* NewsletterForm (status).  view is what the component last rendered:     *)
(* whether the <form> is there, and whether its submit button is disabled. *)
(* posted is the message of the request in flight or last sent.            *)
(***************************************************************************)
MaxReactSubmissions == 2

ReactForms == {"ContactForm", "NewsletterForm"}
ReactResponses == {"ok", "not-ok", "rejected"}

\* the component's return for a status
reactRender(status) ==
  [form |-> status # "success",
   disabled |-> status = "submitting",
   error |-> status = "error"]

\* onSubmit up to await fetch
reactOnSubmit(c) ==
  [c EXCEPT !.status = "submitting", !.view = reactRender("submitting"),
            !.posted = c.message, !.attempts = @ + 1]

\* onSubmit from the await on, leaving 'submitting' for 'idle' on a failure
reactSettleToIdle(c, name, response) ==
  IF response = "ok"
  THEN [c EXCEPT !.status = "success", !.view = reactRender("success"),
                 !.message = ""]
  ELSE [c EXCEPT !.status = "idle", !.view = reactRender("idle")]

\* onSubmit from the await on; only ContactForm has a message to clear
reactSettle(c, name, response) ==
  IF response = "ok"
  THEN [c EXCEPT !.status = "success", !.view = reactRender("success"),
                 !.message = IF name = "ContactForm" THEN "" ELSE @]
  ELSE [c EXCEPT !.status = "error", !.view = reactRender("error")]

NewReactForm ==
  [status |-> "idle", view |-> reactRender("idle"), message |-> "",
   posted |-> "", attempts |-> 0]

InitReactForm ==
  /\ EngineInit /\ listeners = AppListeners
  /\ thr = Idle /\ simple = Idle /\ vis = Idle
  /\ calc = NoCalc /\ dom = Idle /\ mon = Idle /\ sensors = Idle
  /\ perm = Idle /\ modal = Idle /\ form = Idle /\ spark = Idle /\ typing = Idle
  /\ react = [op |-> "new", name |-> "none",
              forms |-> [n \in ReactForms |-> NewReactForm]]

reactVars == <<engineVars, calc, dom, mon, sensors, thr, simple, vis,
               perm, modal, form, spark, typing>>

\* the textarea's onChange: the user types a message or empties it
ReactChange ==
  \E v \in FieldValues :
    /\ react.op # "none"
    /\ react.forms["ContactForm"].view.form
    /\ react.forms["ContactForm"].message # v
    /\ react' = [react EXCEPT !.op = "change", !.name = "ContactForm",
                              !.forms["ContactForm"].message = v]
    /\ UNCHANGED reactVars

\* a submit event: there is a form and its submit button is enabled
ReactSubmit ==
  \E n \in ReactForms :
    /\ react.op # "none"
    /\ react.forms[n].view.form
    /\ ~react.forms[n].view.disabled
    /\ react.forms[n].attempts < MaxReactSubmissions
    /\ react' = [react EXCEPT !.op = "submit", !.name = n,
                              !.forms[n] = reactOnSubmit(@)]
    /\ UNCHANGED reactVars

\* the fetch of a submission settles
ReactResponse ==
  \E n \in ReactForms, response \in ReactResponses :
    /\ react.op # "none"
    /\ react.forms[n].status = "submitting"
    /\ react' = [react EXCEPT !.op = "response", !.name = n,
                              !.forms[n] = reactSettle(@, n, response)]
    /\ UNCHANGED reactVars

NextReactForm ==
  \/ ReactChange
  \/ ReactSubmit
  \/ ReactResponse

SpecReactForm == InitReactForm /\ [][NextReactForm]_vars

(***************************************************************************)
(* The auto-typing effect of ContactForm (src/main.tsx:220-254).  effect   *)
(* is the closure of the effect's last run (its text and the timers its    *)
(* cleanup clears), timeouts and intervals are the browser's live timers,  *)
(* each with the closure it belongs to (run) and, for an interval, its     *)
(* counter i.  mounted tells whether the textarea is rendered (it is not   *)
(* once the form's status is success).  edited, started and completed      *)
(* record, since the last intent: a user edit of the message, the start    *)
(* timeout creating the interval, and the interval typing the last letter. *)
(***************************************************************************)
MaxIntents == 2
MaxMotionChanges == 1

\* handleInquire's two texts, three and two letters long
IntentTexts == {<<"I", "n", "o">>, <<"I", "i">>}
UserText == <<"u">>
NoTimerId == 0

Prefix(m, text) == Len(m) <= Len(text) /\ m = SubSeq(text, 1, Len(m))

\* the cleanup an effect run returns, clearing the start timeout only
typingCleanupKeepingInterval(t) ==
  [t EXCEPT !.timeouts = {x \in @ : x.id \notin {t.effect.startTimeout, t.effect.focusTimeout}}]

\* the cleanup an effect run returns
typingCleanup(t) ==
  [t EXCEPT !.timeouts = {x \in @ : x.id \notin {t.effect.startTimeout, t.effect.focusTimeout}},
            !.intervals = {x \in @ : x.id # t.effect.typingInterval}]

\* a render with new dependencies: the last run's cleanup, then the effect
typingEffect(t0, text, shouldReduceMotion) ==
  LET t == typingCleanup(t0)
      id == t.nextId
      run == t.effect.run + 1
  IN IF text = <<>>
     THEN [t EXCEPT !.effect = [run |-> run, startTimeout |-> NoTimerId,
                                focusTimeout |-> NoTimerId, typingInterval |-> NoTimerId]]
     ELSE IF shouldReduceMotion
     THEN [t EXCEPT !.message = text,
                    !.timeouts = @ \cup {[id |-> id, kind |-> "focus", run |-> run, text |-> text]},
                    !.nextId = id + 1,
                    !.effect = [run |-> run, startTimeout |-> NoTimerId,
                                focusTimeout |-> id, typingInterval |-> NoTimerId]]
     ELSE [t EXCEPT !.message = <<>>,
                    !.timeouts = @ \cup {[id |-> id, kind |-> "start", run |-> run, text |-> text]},
                    !.nextId = id + 1,
                    !.effect = [run |-> run, startTimeout |-> id,
                                focusTimeout |-> NoTimerId, typingInterval |-> NoTimerId]]

\* the start timeout's callback
typingStart(t0, to) ==
  LET t == [t0 EXCEPT !.timeouts = @ \ {to}]
      id == t.nextId
  IN IF ~t.mounted THEN t
     ELSE [t EXCEPT !.intervals = @ \cup {[id |-> id, run |-> to.run, text |-> to.text, i |-> 0]},
                    !.nextId = id + 1,
                    !.effect.typingInterval = IF to.run = t.effect.run THEN id ELSE @,
                    !.started = TRUE]

\* the typing interval's callback
typingTick(t, iv) ==
  LET i == iv.i + 1
  IN [t EXCEPT !.message = SubSeq(iv.text, 1, i),
               !.intervals = IF i = Len(iv.text) THEN @ \ {iv}
                             ELSE (@ \ {iv}) \cup {[iv EXCEPT !.i = i]},
               !.completed = @ \/ (i = Len(iv.text) /\ iv.run = t.effect.run)]

NewTyping(shouldReduceMotion) ==
  [text |-> <<>>, shouldReduceMotion |-> shouldReduceMotion, message |-> <<>>,
   mounted |-> TRUE, timeouts |-> {}, intervals |-> {}, nextId |-> 1,
   effect |-> [run |-> 1, startTimeout |-> NoTimerId, focusTimeout |-> NoTimerId,
               typingInterval |-> NoTimerId],
   edited |-> FALSE, started |-> FALSE, completed |-> FALSE,
   intents |-> 0, motionChanges |-> 0]

InitTyping ==
  /\ EngineInit /\ listeners = AppListeners
  /\ thr = Idle /\ simple = Idle /\ vis = Idle
  /\ calc = NoCalc /\ dom = Idle /\ mon = Idle /\ sensors = Idle
  /\ perm = Idle /\ modal = Idle /\ form = Idle /\ spark = Idle /\ react = Idle
  /\ \E shouldReduceMotion \in BOOLEAN :
       typing = [op |-> "new", t |-> NewTyping(shouldReduceMotion)]

typingVars == <<engineVars, calc, dom, mon, sensors, thr, simple, vis,
                perm, modal, form, spark, react>>

\* handleInquire: a new contactIntent, and the render it causes
TypingInquire ==
  \E text \in IntentTexts :
    /\ typing.op # "none"
    /\ typing.t.intents < MaxIntents
    /\ typing' = [op |-> "inquire",
                  t |-> [typingEffect(typing.t, text, typing.t.shouldReduceMotion)
                           EXCEPT !.text = text, !.intents = @ + 1, !.edited = FALSE,
                                  !.started = FALSE,
                                  !.completed = typing.t.shouldReduceMotion]]
    /\ UNCHANGED typingVars

\* useReducedMotion changes its answer, and the render that causes
TypingMotionChange ==
  /\ typing.op # "none"
  /\ typing.t.motionChanges < MaxMotionChanges
  /\ typing' = [op |-> "motion",
                t |-> [typingEffect(typing.t, typing.t.text, ~typing.t.shouldReduceMotion)
                         EXCEPT !.shouldReduceMotion = ~@, !.motionChanges = @ + 1,
                                !.edited = IF typing.t.text = <<>> THEN @ ELSE FALSE,
                                !.started = FALSE,
                                !.completed = typing.t.text # <<>> /\ ~typing.t.shouldReduceMotion]]
  /\ UNCHANGED typingVars

TypingStartTimeout ==
  \E to \in typing.t.timeouts :
    /\ to.kind = "start"
    /\ typing' = [op |-> "start", t |-> typingStart(typing.t, to)]
    /\ UNCHANGED typingVars

\* the reduced-motion focus timeout: it focuses the textarea
TypingFocusTimeout ==
  \E to \in typing.t.timeouts :
    /\ to.kind = "focus"
    /\ typing' = [op |-> "focus", t |-> [typing.t EXCEPT !.timeouts = @ \ {to}]]
    /\ UNCHANGED typingVars

TypingTick ==
  \E iv \in typing.t.intervals :
    /\ typing' = [op |-> "tick", t |-> typingTick(typing.t, iv)]
    /\ UNCHANGED typingVars

\* the textarea's onChange
TypingChange ==
  /\ typing.op # "none"
  /\ typing.t.mounted
  /\ typing.t.message # UserText
  /\ typing' = [op |-> "change",
                t |-> [typing.t EXCEPT !.message = UserText, !.edited = TRUE]]
  /\ UNCHANGED typingVars

\* onSubmit receives an ok response: the message is emptied and the form
\* replaced by the confirmation
TypingSuccess ==
  /\ typing.op # "none"
  /\ typing.t.mounted
  /\ typing' = [op |-> "success",
                t |-> [typing.t EXCEPT !.message = <<>>, !.mounted = FALSE]]
  /\ UNCHANGED typingVars

TypingTimers ==
  \/ TypingStartTimeout
  \/ TypingFocusTimeout
  \/ TypingTick

NextTyping ==
  \/ TypingInquire
  \/ TypingMotionChange
  \/ TypingStartTimeout
  \/ TypingFocusTimeout
  \/ TypingTick
  \/ TypingChange
  \/ TypingSuccess

SpecTyping == InitTyping /\ [][NextTyping]_vars

\* a live timer's callback is eventually run
FairSpecTyping == SpecTyping /\ WF_vars(TypingTimers)

(***************************************************************************)
(* Properties                                                              *)
(***************************************************************************)
\* the impulse amplitudes of InteractiveState that the Effect Calculator reads
ImpulseFields == {"clickEffect", "keyboardEffect", "tapEffect", "verticalTilt",
                  "horizontalTilt"}

\* callbacks of the input listeners and of the throttlers' timers
InputCallbacks == {"mousemove", "mouseTimer", "click", "keydown", "touchstart",
                   "deviceorientation", "orientationTimer", "visibilitychange",
                   "focus", "blur"}

\* the most recent callback was an animate callback that computed a frame
ComputedTick == last.op = "animate" /\ last.computed

\* the step is an animate callback: it alone leaves "animate" in last, and
\* it always replaces the pending requestAnimationFrame callback it ran
AnimateStep == last'.op = "animate" /\ schedVars' # schedVars

\* how many times op occurs in a sequence of calls
Count(op, ops) == Cardinality({i \in DOMAIN ops : ops[i] = op})

\* the calls to the Effect Calculator in a sequence of calls
CalculatorCalls(ops) == {i \in DOMAIN ops : ops[i] \in {"baseline", "mouse"}}

\* C1: after destroy() no animation tick (updateDecay + updateLetters)
\* executes again, whenever destroy is called, a pending over-budget
\* setTimeout reschedule included.
C1_NoTickAfterDestroy == destroyed => ~ComputedTick

\* C2: after destroy() no callback of an input listener or of a throttler
\* timer changes InteractiveState or writes a letter style.
C2_NoInputAfterDestroy ==
  [][(destroyed /\ last'.op \in InputCallbacks)
       => (state' = state /\ letterData' = letterData)]_vars

\* C3: while the document is hidden (after a visibilitychange that reported
\* it hidden and before the one that reports it visible), an animate
\* callback computes nothing: it makes no call to calculateBaselineEffects
\* or calculateMouseEffects, nor any other call.
C3_HiddenTicksComputeNothing ==
  (last.op = "animate" /\ docHidden) => (~last.computed /\ last.ops = <<>>)

\* a hidden page had an animate callback run while a click impulse, which a
\* computed frame would have drawn, was still active
C3_Witness ==
  /\ last.op = "animate"
  /\ docHidden
  /\ state.clickEffect > 1

\* C4: in every reachable state every impulse amplitude (clickEffect,
\* keyboardEffect, tapEffect, verticalTilt, horizontalTilt) is in [0, 1].
C4_ImpulsesInUnitInterval ==
  \A f \in ImpulseFields : state[f] >= 0 /\ state[f] <= 100

\* a letter's written values are within the configured ranges
InRange(ld) ==
  /\ ld.lastWeight >= FP(WEIGHT_MIN) /\ ld.lastWeight <= FP(WEIGHT_MAX)
  /\ ld.lastDistortion >= 0 /\ ld.lastDistortion <= FP(DISTORTION_MAX)
  /\ ld.style.wght >= FP(WEIGHT_MIN) /\ ld.style.wght <= FP(WEIGHT_MAX)
  /\ ld.style.dist >= 0 /\ ld.style.dist <= FP(DISTORTION_MAX)

\* C5: every weight and distortion written to a letter by updateLetters, by
\* handleMouseMove or by updateFixedLetter satisfies WEIGHT.MIN <= weight <=
\* WEIGHT.MAX and 0 <= distortion <= DISTORTION.MAX, whatever the impulses,
\* tilt, pointer position, velocity and quality level.
C5_WrittenValuesInRange ==
  calc.op \in {"updateLetters", "handleMouseMove", "updateFixedLetter"}
    => \A i \in Letters :
         calc.letterData[i].lastWeight # Null => InRange(calc.letterData[i])

\* updateLetters drew a letter under the pointer with every impulse and both
\* tilts at their maximum, and wrote the maximal weight
C5_Witness ==
  /\ calc.op = "updateLetters"
  /\ calc.in.s.mouseActive
  /\ calc.in.s.clickEffect = 100
  /\ calc.in.s.keyboardEffect = 300
  /\ calc.in.s.tapEffect = 300
  /\ calc.in.s.horizontalTilt = 100
  /\ calc.letterData[0].lastWeight = FP(WEIGHT_MAX)

\* C6: on every computed tick each impulse amplitude (click, keyboard, tap,
\* vertical tilt, horizontal tilt) does not increase, stays non-negative,
\* and, while positive, gets strictly smaller.
C6_ImpulsesDecay ==
  [][(AnimateStep /\ last'.computed)
       => \A f \in ImpulseFields :
            /\ state'[f] <= state[f]
            /\ state'[f] >= 0
            /\ (state[f] > 0 => state'[f] < state[f])]_vars

\* C7 as stated: every animate callback applies the decay exactly once, and
\* before anything else it does.
C7_DecayOnEveryCallback ==
  last.op = "animate" => (Count("decay", last.ops) = 1 /\ Head(last.ops) = "decay")

\* C7, amended: an animate callback that computes a frame applies updateDecay
\* exactly once and before every call to the Effect Calculator, which reads
\* the decayed state; an animate callback that skips its frame applies no
\* decay and leaves InteractiveState as it was.
C7_DecayOncePerComputedTick ==
  [][AnimateStep
       => IF last'.computed
          THEN /\ Count("decay", last'.ops) = 1
               /\ \A i \in CalculatorCalls(last'.ops) : i > 1
               /\ Head(last'.ops) = "decay"
               /\ state' = updateDecay(state, DateNow)
               /\ letterData' = updateLetters(letterData, Seconds(clock), state',
                                              pm.qualityLevel).letterData
          ELSE /\ Count("decay", last'.ops) = 0
               /\ state' = state]_vars

\* a computed frame decayed a click impulse and then called
\* calculateBaselineEffects with it
C7_Witness ==
  /\ ComputedTick
  /\ state.clickEffect > 1
  /\ state.clickEffect < 100
  /\ Count("baseline", last.ops) > 0

\* C8: while the page is visible and focused, fewer than 10 animate
\* callbacks in a row skip their frame, so that of any 10 consecutive frames
\* at least one is computed (decay and recalculation), input inactivity
\* included.
C8_IdleNeverStops == skippedRun < 10

\* an idle, visible and focused page computed a frame after skipping nine
C8_Witness ==
  /\ ComputedTick
  /\ last.skipped = 9
  /\ isVisible /\ isActive

\* C9: when the frame time exceeds 1.5 times the target frame time, the next
\* tick is scheduled through setTimeout with a strictly positive delay, the
\* shortfall frameTime - targetFrameTime.
C9_OverBudgetDelay ==
  (ComputedTick /\ last.frameTime > (last.targetFrameTime * 15) \div 10)
    => /\ last.sched = "timeout"
       /\ last.delay = last.frameTime - last.targetFrameTime
       /\ last.delay > 0

\* C10: for a pointer whose squared distance to the letter's centre is at
\* least MOUSE_RANGE^2, the distance MOUSE_RANGE itself included,
\* calculateMouseEffects returns exactly {weight: 0, distortion: 0}.
C10_OutOfRangeIsZero ==
  (/\ calc.op = "calculateMouseEffects"
   /\ DistSquared(calc.in.e, calc.letter) >= MOUSE_RANGE * MOUSE_RANGE)
    => calc.effect = ZeroEffect

\* calculateMouseEffects was called for a pointer at exactly MOUSE_RANGE
\* from the letter's centre, off both axes, with a fast-moving pointer
C10_Witness ==
  /\ calc.op = "calculateMouseEffects"
  /\ DistSquared(calc.in.e, calc.letter) = MOUSE_RANGE * MOUSE_RANGE
  /\ calc.in.e[2] # getRect(calc.letter).centerY
  /\ calc.in.s.mouseVelocity > 0
  /\ calc.effect = ZeroEffect

Calls == {dom.calls[n] : n \in DOMAIN dom.calls}

\* C12 as stated: a getRect for an element less than RECT_DURATION after the
\* previous getRect for the same element returns the object that call
\* returned, without measuring; RECT_DURATION or more after it, it measures.
C12_HitWithinDurationOfPreviousCall ==
  \A call \in Calls :
    call.calledAt # Null
      => IF call.at - call.calledAt < RECT_DURATION
         THEN ~call.measured /\ call.rect = call.prevRect
         ELSE call.measured

\* C12 amended: a getRect for an element less than RECT_DURATION after the
\* element was last measured (and not cleared since) returns the object
\* cached by that measurement, with its values untouched and without
\* measuring, whatever getRect calls for other elements and cleanup() runs
\* came in between; any other getRect measures the element and returns the
\* fresh geometry.
C12_HitWithinDurationOfMeasurement ==
  \A call \in Calls :
    IF call.measuredAt # Null /\ call.at - call.measuredAt < RECT_DURATION
    THEN /\ ~call.measured
         /\ call.rect = call.prevRect
         /\ call.values = call.prevValues
    ELSE /\ call.measured
         /\ call.values = MeasuredRect(getBoundingClientRect(call.el, dom.layout))

\* a hit some time after the measurement, other elements having been
\* measured and cleanup() having found the cache over its size in between
C12_Witness ==
  \E call \in Calls :
    /\ ~call.measured
    /\ call.measuredAt # Null /\ call.at > call.measuredAt
    /\ Cardinality(DOMAIN dom.c.cache) > MAX_CACHE_SIZE
    /\ \E el \in CacheElements :
         dom.measuredAt[el] # Null /\ dom.measuredAt[el] > call.measuredAt

\* C13: the first getRect for an element after a viewport resize measures
\* the element and returns its geometry in the resized viewport, never a
\* rect cached before the resize.
C13_ResizeInvalidatesCache ==
  \A call \in Calls :
    call.resized
      => /\ call.measured
         /\ call.values = MeasuredRect(getBoundingClientRect(call.el, dom.layout))

\* C14: in every state of the PerformanceMonitor, whatever the frame costs
\* were, qualityLevel is at least 0.3 and at most 1.0.
C14_QualityInRange == mon.op # "none" => mon.m.qualityLevel \in 30 .. 100

\* the lower clamp has just acted: a step down from a quality whose 0.95
\* would be under 0.3
C14_Witness ==
  /\ mon.op = "endFrame"
  /\ mon.m.qualityLevel = 30
  /\ RoundDiv(mon.before * 95, 100) < 30
  /\ mon.cost = 900

\* C15: an endFrame that leaves fewer than 30 samples recorded leaves
\* qualityLevel unchanged, and any endFrame changes it by at most one step:
\* not below 0.95 times its value and not above 1.02 times its value (to the
\* nearest hundredth).
C15_OneStepAfterThirtySamples ==
  mon.op = "endFrame"
    => /\ mon.frames < 30 => mon.m.qualityLevel = mon.before
       /\ mon.m.qualityLevel >= RoundDiv(mon.before * 95, 100)
       /\ mon.m.qualityLevel <= RoundDiv(mon.before * 102, 100)

\* a step up made by an endFrame after the quality had been lowered
C15_Witness ==
  /\ mon.op = "endFrame"
  /\ mon.frames >= 30
  /\ mon.before < 100
  /\ mon.m.qualityLevel = RoundDiv(mon.before * 102, 100)
  /\ mon.m.qualityLevel > mon.before

\* a reading of one axis that is missing, not a number, or outside lo .. hi
Unusable(x, lo, hi) == x = Null \/ x = NaN \/ x < lo \/ x > hi

\* C16: after the orientation handler has run on an event whose beta is
\* missing or invalid, verticalTilt is 0; on one whose gamma is missing or
\* invalid, horizontalTilt is 0; and the orientation stored in the state is
\* within the valid ranges.
C16_UnusableReadingIsCentered ==
  calc.op = "deviceorientation"
    => LET e == calc.applied[1].e
           s == calc.applied[1].s
       IN /\ Unusable(e[1], 0, 180) => s.verticalTilt = 0
          /\ Unusable(e[2], -180, 180) => s.horizontalTilt = 0
          /\ s.deviceOrientation.beta \in 0 .. 180
          /\ s.deviceOrientation.gamma \in -180 .. 180

\* C17: an initialize() on a platform that gates orientation behind a
\* permission, run in a page load that follows a decision of the user
\* (granted, denied or dismissed) that was stored and can be read back,
\* leaves no permission prompt on the page.
C17_NoPromptAfterStoredDecision ==
  (/\ sensors.op = "initialize"
   /\ sensors.platform = "ios"
   /\ sensors.loads > 1
   /\ sensors.decisionBefore # "none"
   /\ ~sensors.fails)
    => ~sensors.m.permissionContainer

\* C18: when localStorage throws during a method of the permission flow, no
\* exception leaves the method; an initialize() whose read of the stored
\* decision throws takes the decision for absent, shows a fresh prompt and
\* completes.
C18_StoreFailureSwallowed ==
  sensors.op # "none" /\ sensors.fails
    => /\ ~sensors.threw
       /\ sensors.op = "initialize"
            => /\ sensors.m.isInitialized
               /\ sensors.m.permissionContainer
               /\ ~sensors.m.listening

\* the read of a stored grant threw during initialize()
C18_Witness ==
  /\ sensors.op = "initialize"
  /\ sensors.fails
  /\ sensors.store = "true"
  /\ sensors.m.permissionContainer

\* the fields of InteractiveState that the handler of an input writes
OwnFields(op) ==
  CASE op = "click" -> {"clickEffect"}
    [] op = "keydown" -> {"keyboardEffect", "keyCount", "typingSpeed", "maxTypingSpeed",
                          "lastKeyTime"}
    [] op = "touchstart" -> {"tapEffect", "tapCount", "tapSpeed", "lastTapTime"}
    [] op \in {"deviceorientation", "orientationTimer"} ->
         {"deviceOrientation", "verticalTilt", "horizontalTilt", "orientationEffect"}
    [] op \in {"mousemove", "mouseTimer"} ->
         {"lastMouseX", "lastMouseY", "mouseVelocity", "mouseActive"}

\* a step taken by the handler of an input event or of a throttler's timer
HandlerStep ==
  /\ last'.op \in {"click", "keydown", "touchstart", "deviceorientation",
                   "orientationTimer", "mousemove", "mouseTimer"}
  /\ \/ events' = events + 1
     \/ mouseThrottler'.timer # mouseThrottler.timer
     \/ orientationThrottler'.timer # orientationThrottler.timer

\* C19: a step of an input handler changes no field of InteractiveState but
\* the handler's own: click only clickEffect, keydown only the keyboard
\* impulse and typing cadence, touchstart only the tap impulse and cadence,
\* deviceorientation only the orientation and tilt fields, mousemove only
\* the pointer fields.
C19_HandlersWriteOwnFields ==
  [][HandlerStep
       => \A f \in (DOMAIN state) \ OwnFields(last'.op) : state'[f] = state[f]]_vars

\* a keydown has set the keyboard impulse while the click impulse of an
\* earlier click is still at its full value
C19_Witness ==
  /\ last.op = "keydown"
  /\ state.keyboardEffect > 0
  /\ state.clickEffect = 100

\* the last FIXED_LETTERS letters
FixedLetters == {i \in Letters : i >= NumLetters - FIXED_LETTERS}

\* C20: whatever mousemove events, impulses and frames there were, a fixed
\* letter that has been drawn has been given the baseline weight and the
\* baseline distortion, and nothing else.
C20_FixedLettersAtBaseline ==
  \A i \in FixedLetters :
    /\ letterData[i].lastWeight \in {Null, FP(WEIGHT_BASELINE)}
    /\ letterData[i].lastDistortion \in {Null, FP(DISTORTION_BASELINE)}
    /\ letterData[i].style.wght \in {Null, ToFixed1(FP(WEIGHT_BASELINE))}
    /\ letterData[i].style.dist \in {Null, ToFixed1(FP(DISTORTION_BASELINE))}

\* a frame computed with the pointer active among the letters and a click
\* impulse alive: the movable letter under the pointer is off the baseline,
\* the fixed letters are on it
C20_Witness ==
  /\ last.op = "animate" /\ last.computed
  /\ state.mouseActive
  /\ state.clickEffect > 0
  /\ letterData[0].lastWeight # FP(WEIGHT_BASELINE)
  /\ \A i \in FixedLetters : letterData[i].lastWeight = FP(WEIGHT_BASELINE)

\* no click, keyboard, tap or tilt impulse and no pointer velocity
NoImpulses(s) ==
  /\ s.clickEffect = 0 /\ s.keyboardEffect = 0 /\ s.tapEffect = 0
  /\ s.verticalTilt = 0 /\ s.horizontalTilt = 0 /\ s.orientationEffect = 0
  /\ s.mouseVelocity = 0

\* C21: with the pointer exactly on the centre of a letter and no impulse
\* active, calculateMouseEffects gives the letter the weight of the centre,
\* WEIGHT.MAX, whatever the time.
C21_CentreWeightIsMaximum ==
  (/\ calc.op = "calculateMouseEffects"
   /\ calc.in.e[1] = getRect(calc.letter).centerX
   /\ calc.in.e[2] = getRect(calc.letter).centerY
   /\ NoImpulses(calc.in.s))
    => calc.effect.weight = FP(WEIGHT_MAX)

\* f^n for a factor f in hundredths, in the unit of one
RECURSIVE Power(_, _, _)
Power(f, n, one) == IF n = 0 THEN one ELSE TruncDiv(Power(f, n - 1, one) * f, 100)

\* C22: a click sets clickEffect to exactly 1.0 whatever it was, and n
\* computed frames after the last click clickEffect is DECAY.CLICK^n: about
\* 0.599 after ten.
C22_ClickDecaysGeometrically ==
  /\ calc.op = "click" => calc.s.clickEffect = Million
  /\ calc.op \in {"click", "frame", "skip"} /\ calc.ticks # Null
       => /\ calc.s.clickEffect = Power(DECAY_CLICK, calc.ticks, Million)
          /\ calc.ticks = 10
               => /\ calc.s.clickEffect > 598000
                  /\ calc.s.clickEffect < 600000

\* ten computed frames after the second click, which came while the first
\* was still decaying
C22_Witness ==
  /\ calc.op = "frame"
  /\ calc.clicks = 2
  /\ calc.ticks = 10
  /\ calc.frames > 10

\* a step in which handleMouseMove runs, from the event or from the timer of
\* mouseThrottler
MouseHandled ==
  /\ last'.op \in {"mousemove", "mouseTimer"}
  /\ last'.ops # <<>>
  /\ events' = events + 1 \/ mouseThrottler'.timer # mouseThrottler.timer

\* C23: handleMouseMove stores the new pointer position and sets
\* mouseVelocity to the distance from the previous position divided by the
\* time elapsed since the previous pointer update (counted in ms or in s),
\* for every update but the first.
C23_VelocityIsDisplacementOverTime ==
  [][MouseHandled /\ mouseThrottler.lastCall > 0 /\ clock > mouseThrottler.lastCall
       => LET dx == state'.lastMouseX - state.lastMouseX
              dy == state'.lastMouseY - state.lastMouseY
              elapsed == clock - mouseThrottler.lastCall
          IN state'.mouseVelocity \in {TruncDiv(Sqrt(dx * dx + dy * dy), elapsed),
                                       TruncDiv(Sqrt(dx * dx + dy * dy) * 1000, elapsed)}]_vars

\* C24: two calls of the throttled function are never less than the
\* throttle delay apart, whether they come from an event or from a timer.
C24_CallsAtLeastDelayApart ==
  thr.op # "none" /\ thr.before.at # Null
    => thr.invoked.at - thr.before.at >= THROTTLE_MOUSE

LatestPendingOrDelivered ==
  thr.event.args # Null
    => \/ thr.event.args \in thr.delivered
       \/ \E tm \in thr.t.timers :
            /\ tm.args = thr.event.args
            /\ tm.at = thr.event.at
            /\ tm.due <= thr.event.at + THROTTLE_MOUSE

TimerCallOnSchedule ==
  thr.invoked.timer
    => (thr.invoked.at - thr.invoked.late) - thr.invoked.eventAt <= THROTTLE_MOUSE

\* C30: at most one trailing timer is pending at any time; the latest event
\* has been passed to the throttled function or waits in a timer due no
\* more than the delay after it, and is eventually passed to the function.
C30_LatestEventDelivered ==
  /\ [](thr.op # "none"
          => /\ Cardinality(thr.t.timers) <= 1
             /\ LatestPendingOrDelivered
             /\ TimerCallOnSchedule)
  /\ \A n \in 1..(MaxThrottleEvents + 1) :
       (thr.op # "none" /\ thr.event.args = n)
         ~> (n \in thr.delivered \/ thr.event.args > n)
  /\ <>[](thr.event.args # Null => thr.event.args \in thr.delivered)

\* a burst of two events inside one delay: the second replaced the first's
\* timer and was delivered by its own
C30_Witness ==
  /\ thr.op = "timer"
  /\ thr.invoked.timer
  /\ thr.invoked.args = thr.event.args
  /\ thr.invoked.args >= 2
  /\ (thr.invoked.args - 1) \notin thr.delivered
  /\ thr.invoked.late = 0

UnitInterval(x) == 0 <= x /\ x <= SimpleOne

\* C25: in the simplified engine clickEffect, keyboardEffect and
\* hoverIntensity stay in [0, 1] after any sequence of click, keydown,
\* mouseenter, mouseleave and frames; a click sets clickEffect to 1.0 and a
\* keydown either adds a burst clamped at 1 or sets keyboardEffect to 0.6.
C25_SimpleImpulsesInUnitInterval ==
  simple.op # "none"
    => /\ UnitInterval(simple.g.clickEffect)
       /\ UnitInterval(simple.g.keyboardEffect)
       /\ UnitInterval(simple.g.hoverIntensity)
       /\ (simple.op = "click" => simple.g.clickEffect = SimpleOne)
       /\ (simple.op = "keydown"
             => simple.g.keyboardEffect \in {Min(SimpleOne, simple.raw), (6 * SimpleOne) \div 10})

\* a rapid keydown whose burst was cut at 1 while a click and a hover are live
C25_Witness ==
  /\ simple.op = "keydown"
  /\ simple.raw > SimpleOne
  /\ simple.g.keyboardEffect = SimpleOne
  /\ simple.g.clickEffect > 0
  /\ simple.g.hoverIntensity > 0

\* clamp(baseline + pointerEffect) per axis for letter i, state st, pointer
\* at (x, y); the pointer's part counts when withPointer
Combined(i, x, y, time, st, qualityLevel, withPointer) ==
  LET baseline == calculateBaselineEffects(i, time, st, qualityLevel)
      pointer == IF withPointer
                 THEN calculateMouseEffects(x, y, getRect(i), i, time, st, qualityLevel)
                 ELSE ZeroEffect
  IN [weight |-> Max(FP(WEIGHT_MIN), Min(FP(WEIGHT_MAX), baseline.weight + pointer.weight)),
      distortion |-> Max(0, Min(FP(DISTORTION_MAX),
                                baseline.distortion + pointer.distortion))]

\* C26: every value written to a non-fixed letter, by the tick and by the
\* mousemove handler alike, is clamp(baseline + pointerEffect) per axis for
\* the state at the time of the write.
C26_WritesAreCombined ==
  /\ calc.op = "updateLetters"
       => \A i \in Letters :
            ~calc.letterData[i].isFixed /\ calc.letterData[i].lastWeight # Null
              => LET c == Combined(i, calc.in.s.lastMouseX, calc.in.s.lastMouseY,
                                   calc.in.time, calc.in.s, calc.in.qualityLevel,
                                   calc.in.s.mouseActive)
                 IN /\ calc.letterData[i].lastWeight = c.weight
                    /\ calc.letterData[i].lastDistortion = c.distortion
  /\ calc.op = "handleMouseMove"
       => \A i \in Letters :
            ~calc.letterData[i].isFixed /\ calc.letterData[i].lastWeight # Null
              => LET st == handleMouseMove(calc.in.e, calc.in.s, precalculateLetterData,
                                           calc.in.time * 10, calc.in.qualityLevel).state
                     c == Combined(i, calc.in.e[1], calc.in.e[2],
                                   Seconds(calc.in.time * 10), st,
                                   calc.in.qualityLevel, TRUE)
                 IN /\ calc.letterData[i].lastWeight = c.weight
                    /\ calc.letterData[i].lastDistortion = c.distortion

\* C27: while the page is hidden or the window has lost focus, a mousemove
\* event or a trailing timer of the pointer's throttler makes no call to the
\* Effect Calculator and writes no letter style.
C27_SuspendedPointerComputesNothing ==
  (last.op \in {"mousemove", "mouseTimer"} /\ (~isVisible \/ ~isActive))
    => last.ops = <<>>

\* the signals end with the page shown again after having been hidden
ShownAgain == vis.op # "none" /\ vis.seq # <<>> /\ vis.seq[Len(vis.seq)] = "visible"

\* a blur signal with no focus signal after it
Blurred ==
  \E i \in DOMAIN vis.seq :
    vis.seq[i] = "blur" /\ \A j \in DOMAIN vis.seq : j > i => vis.seq[j] # "focus"

NotIdle == DateNow - lastActivityTime <= INACTIVITY_TIMEOUT

\* C28 as stated: once a visible signal has followed a hidden one, the
\* animate callbacks compute again (decay and effect calculation), whatever
\* focus and blur signals came before the visible signal.
C28_ResumesWhenShown ==
  (last.op = "animate" /\ ShownAgain) => last.computed

\* C28: once the page is shown again the animate callbacks compute again
\* exactly if no blur signal is left unanswered by a focus signal: an
\* animate callback computes only while the page is shown and the window
\* focused, and then it does unless the engine is idle.
C28_ResumesWhenShownAndFocused ==
  vis.op # "none"
    => /\ isVisible = ~docHidden
       /\ isActive = ~Blurred
       /\ last.op = "animate" /\ last.computed => ~docHidden /\ ~Blurred
       /\ last.op = "animate" /\ ~last.computed /\ NotIdle => docHidden \/ Blurred

\* hidden, blurred, shown and focused again, with a click impulse alive:
\* the animate callback after the focus signal computes the baseline effects
C28_Witness ==
  /\ vis.op # "none"
  /\ vis.seq = <<"hidden", "blur", "visible", "focus">>
  /\ last.op = "animate"
  /\ last.computed
  /\ CalculatorCalls(last.ops) # {}

ScheduledTicks == Cardinality(rafPending) + Cardinality(rafTimers)

\* C29: at most one tick is scheduled at any time, counting a pending
\* requestAnimationFrame and a pending over-budget setTimeout alike, and
\* until destroy() exactly one is.
C29_OneScheduledTick ==
  /\ ScheduledTicks <= 1
  /\ ~destroyed => ScheduledTicks = 1

\* an over-budget frame left its successor to a timer: no request is pending
C29_Witness ==
  /\ ~destroyed
  /\ last.op = "animate"
  /\ last.sched = "timeout"
  /\ rafPending = {}
  /\ rafTimers # {}

\* C31: a MobileSensorManager has at most one deviceorientation listener
\* registered, however the clicks on the permission button and the
\* settling of their requests interleave.
C31_OneOrientationListener ==
  perm.op # "none" => perm.m.listeners <= 1

Pooled(c) == {c.rectPool[n] : n \in DOMAIN c.rectPool}

\* C32: in the DOMCache no rect object is the cached value of two elements,
\* none is both cached and in the free pool (nor twice in the pool), the
\* cache and timestamps Maps have the same keys, and the pool never holds
\* more than poolSize objects.
C32_CacheAndPoolDisjoint ==
  dom.op # "none"
    => /\ \A e1, e2 \in DOMAIN dom.c.cache :
            dom.c.cache[e1] = dom.c.cache[e2] => e1 = e2
       /\ \A e \in DOMAIN dom.c.cache : dom.c.cache[e] \notin Pooled(dom.c)
       /\ Cardinality(Pooled(dom.c)) = Len(dom.c.rectPool)
       /\ DOMAIN dom.c.cache = DOMAIN dom.c.timestamps
       /\ Len(dom.c.rectPool) <= POOL_SIZE

\* clear() met more cached rects than the pool takes and filled it; the
\* letter loop after it took its rect objects from the pool
C32_Witness ==
  /\ dom.op = "getRect"
  /\ dom.destroyed
  /\ Cardinality(DOMAIN dom.c.cache) = NumLetters - FIXED_LETTERS
  /\ Len(dom.c.rectPool) = POOL_SIZE - (NumLetters - FIXED_LETTERS)

\* C33: isOpen holds exactly when the modal has the 'active' class and the
\* body's scrolling is locked; openModal on an open modal and closeModal on
\* a closed one change nothing; no scroll timeout is pending while the
\* modal is closed.
C33_ModalStateConsistent ==
  modal.op # "none"
    => /\ modal.m.isOpen = modal.m.active
       /\ modal.m.isOpen = (modal.m.overflow = "hidden")
       /\ modal.m.isOpen
            => openModal(modal.m, modal.scrollY, EpochOffset + modal.now) = modal.m
       /\ ~modal.m.isOpen => closeModal(modal.m) = modal.m
       /\ ~modal.m.isOpen => modal.m.timers = {} /\ modal.m.scrollTimeout = Null
       /\ Cardinality(modal.m.timers) <= 1

\* Escape closed the modal while the timeout of a short upward scroll was
\* pending
C33_Witness ==
  /\ modal.op = "escape"
  /\ ~modal.m.isOpen
  /\ modal.pendingBefore = 1
  /\ modal.m.timers = {}

\* C34: once no submission is in flight, every submit button is enabled
\* and shows the label it had before any submission started.
C34_ButtonsRestored ==
  (form.op # "none" /\ form.inFlight = {})
    => \A b \in Buttons :
         /\ ~form.buttons[b].disabled
         /\ form.buttons[b].innerHTML = OriginalLabel[b]

\* C35: when a Formspark submission ends, the success message is shown and
\* the form reset only if the endpoint answered ok; after every failed
\* submission (status not ok, network or CORS error) the error message is
\* shown and the field values are the ones the form had.
C35_SuccessOnlyWhenOk ==
  spark.op = "response"
    => IF spark.response \in {"ok", "ok-no-json"}
       THEN spark.f.message = "success" /\ spark.f.fields = EmptyForm
       ELSE spark.f.message = "error" /\ spark.f.fields = spark.before

StatusTransitions ==
  {<<"idle", "submitting">>, <<"submitting", "success">>,
   <<"submitting", "error">>, <<"error", "submitting">>}

\* what onSubmit may do to one form in a step
StatusStep(n) ==
  LET c == react.forms[n]
      d == react'.forms[n]
  IN /\ c.status # d.status => <<c.status, d.status>> \in StatusTransitions
     /\ c.status = "success" => d = c
     /\ d.view.disabled <=> d.status = "submitting"
     /\ d.view.form <=> d.status # "success"
     /\ react'.op \in {"submit", "response"} /\ d.message # c.message
          => c.status = "submitting" /\ d.status = "success" /\ d.message = ""
     /\ c.status = "submitting" /\ d.status = "error" => d.message = c.message

\* C36: the status of ContactForm and of NewsletterForm only moves
\* idle->submitting, submitting->success, submitting->error and
\* error->submitting; nothing changes once it is success; the submit button
\* is disabled exactly while the status is submitting; and onSubmit changes
\* the message only by emptying it on an ok response.
C36_StatusMachine ==
  [][react.op # "none" /\ react'.op # "none"
       => \A n \in ReactForms : StatusStep(n)]_vars

\* a second attempt after an error has succeeded and emptied the message
C36_Witness ==
  /\ react.op = "response" /\ react.name = "ContactForm"
  /\ react.forms["ContactForm"].status = "success"
  /\ react.forms["ContactForm"].attempts = 2
  /\ react.forms["ContactForm"].posted = "text"
  /\ react.forms["ContactForm"].message = ""
  /\ react.forms["NewsletterForm"].status = "error"

StartTimeouts == {x \in typing.t.timeouts : x.kind = "start"}

OneTimerEach ==
  /\ Cardinality(typing.t.intervals) <= 1
  /\ Cardinality(StartTimeouts) <= 1
  /\ ~(typing.t.intervals # {} /\ StartTimeouts # {})

Unedited == typing.op # "none" /\ typing.t.text # <<>> /\ ~typing.t.edited

TypingQuiet == typing.op # "none" /\ typing.t.intervals = {} /\ StartTimeouts = {}

\* C37 as stated: at most one typing interval and one start timeout are
\* live; while the user has not edited the message since the last intent it
\* is a prefix of the intent's text; and once the timers are done the full
\* text has been typed.
C37_TypesFullText ==
  typing.op # "none"
    => /\ OneTimerEach
       /\ Unedited => Prefix(typing.t.message, typing.t.text)
       /\ Unedited /\ TypingQuiet => typing.t.completed

\* C37 amended: the same, the full text being typed when the textarea was
\* rendered as the start timeout fired (or motion is reduced, when the text
\* is set at once); otherwise the message stays empty.  The timers are
\* eventually done for good.
C37_TypesFullTextWhenMounted ==
  /\ [](typing.op # "none"
          => /\ OneTimerEach
             /\ Unedited => Prefix(typing.t.message, typing.t.text)
             /\ Unedited /\ TypingQuiet /\ (typing.t.started \/ typing.t.shouldReduceMotion)
                  => typing.t.completed
             /\ Unedited /\ TypingQuiet /\ ~typing.t.started /\ ~typing.t.shouldReduceMotion
                  => typing.t.message = <<>>)
  /\ <>[]TypingQuiet

\* the second intent's text has been typed to its last letter
C37_Witness ==
  /\ typing.op = "tick"
  /\ typing.t.intents = 2
  /\ typing.t.started /\ typing.t.completed /\ ~typing.t.edited
  /\ typing.t.message = typing.t.text
  /\ typing.t.intervals = {}

\* C38: handleKeyDown and handleTouchStart never divide by a zero interval:
\* after any sequence of key and touch events, two at the same timestamp
\* included, typingSpeed and tapSpeed are finite, and so are keyboardEffect
\* and tapEffect.
C38_SpeedsFinite ==
  /\ state.typingSpeed < Infinity /\ state.typingSpeed # NaN
  /\ state.tapSpeed < Infinity /\ state.tapSpeed # NaN
  /\ state.keyboardEffect < Infinity /\ state.keyboardEffect # NaN
  /\ state.tapEffect < Infinity /\ state.tapEffect # NaN

\* C39: the animation loop writes the performance line once every 60
\* computed frames: a frame that writes it is the 60th since the line
\* before (or since the start), and no other frame writes it.
C39_LogsEverySixtyFrames ==
  mon.op = "endFrame" => (mon.logged <=> mon.gap = 60)
====
